---- MODULE Spec2Model ----
(***************************************************************************)
(* Res Arcana rules engine (src/Res Arcana): the game state of            *)
(* game_state.py, the operations of game_logic.py and the follow-up steps *)
(* the callers in server.py run after them, as one state machine.         *)
(*                                                                         *)
(* game  : the GameState aggregate (players, phase, per-phase substates,  *)
(*         shared zones), a record with the fields of game_state.py       *)
(* last  : the last operation invoked, its arguments and what it returned *)
(* hist  : history of the draft and of the magic-item takes                *)
(* call  : inputs and outputs of a pure function under test                *)
(***************************************************************************)
EXTENDS Integers, Sequences, FiniteSets, TLC

VARIABLES game, last, hist, call

vars == <<game, last, hist, call>>

(***************************************************************************)
(* Sequences as Python lists                                               *)
(***************************************************************************)
Contains(s, x) == \E i \in DOMAIN s : s[i] = x

Reverse(s) == [i \in 1..Len(s) |-> s[Len(s) + 1 - i]]

\* index of the first element equal to x (0 when absent)
IndexOf(s, x) == IF Contains(s, x) THEN CHOOSE i \in DOMAIN s : s[i] = x /\ \A j \in 1..(i - 1) : s[j] # x ELSE 0

\* list.remove(x): drops the first element equal to x
ListRemove(s, x) == LET k == IndexOf(s, x) IN IF k = 0 THEN s ELSE SubSeq(s, 1, k - 1) \o SubSeq(s, k + 1, Len(s))

\* [s.pop() for _ in range(k)]: the last k elements, last first
PopMany(s, k) == [i \in 1..k |-> s[Len(s) + 1 - i]]

\* what is left of s after k calls of s.pop()
AfterPop(s, k) == SubSeq(s, 1, Len(s) - k)

Min(a, b) == IF a < b THEN a ELSE b

Max(a, b) == IF a < b THEN b ELSE a

\* the cards a stacked deck deals first, in the order in which they are popped
TopCards == <<"Prism", "Earth Dragon", "Fire Dragon", "Bone Dragon", "Sea Serpent", "Water Dragon", "Wind Dragon", "Magical Shard">>

\* s with the cards of top moved to its end, the first of them last
Stacked(s, top) == SelectSeq(s, LAMBDA x : ~Contains(top, x)) \o Reverse(SelectSeq(top, LAMBDA x : Contains(s, x)))

\* random.shuffle(s): the outcomes followed are the order kept, reversed, rotated by one, and stacked
Shuffled(s, sh) == CASE sh = "reverse" -> Reverse(s) [] sh = "rotate" /\ Len(s) > 0 -> Tail(s) \o <<Head(s)>> [] sh = "stack" -> Stacked(s, TopCards) [] OTHER -> s

(***************************************************************************)
(* Python dicts handed in by callers or held in the catalog: the sequence  *)
(* of (key, value) pairs in insertion order                                *)
(***************************************************************************)
DictHas(d, k) == \E i \in DOMAIN d : d[i][1] = k

\* d.get(k, default)
DictGet(d, k, default) == IF DictHas(d, k) THEN d[CHOOSE i \in DOMAIN d : d[i][1] = k][2] ELSE default

\* d[k] = v
DictPut(d, k, v) == IF DictHas(d, k) THEN [i \in DOMAIN d |-> IF d[i][1] = k THEN <<k, v>> ELSE d[i]] ELSE Append(d, <<k, v>>)

\* del d[k]
DictDel(d, k) == SelectSeq(d, LAMBDA e : e[1] # k)

RECURSIVE DictSum(_)
\* sum(d.values())
DictSum(d) == IF Len(d) = 0 THEN 0 ELSE Head(d)[2] + DictSum(Tail(d))

(***************************************************************************)
(* game_state.py: enumerations                                             *)
(***************************************************************************)
\* ResourceType, in declaration order
ResourceType == <<"red", "blue", "green", "black", "gold">>

Resources == {ResourceType[i] : i \in DOMAIN ResourceType}

NonGold == <<"red", "blue", "green", "black">>

GamePhase == <<"setup", "drafting_round_1", "drafting_round_2", "mage_selection", "magic_item_selection", "income", "playing", "game_over">>

\* Optional[...]: None is the empty sequence, a value v is <<v>>
None == <<>>

Some(v) == <<v>>

\* Optional[int] fields hold -1 for None
NoPlayer == -1

NoRes == [r \in Resources |-> 0]

\* Card(name, card_type) with no effects: names are the addressing key
ControlledCard(name) == [card |-> name, tapped |-> FALSE, resources |-> NoRes]

(***************************************************************************)
(* game_state.py: card data.  A dict is the sequence of its (key, value)   *)
(* pairs in insertion order; an absent Optional dict or list is empty, an  *)
(* absent Optional string is "" and an absent Optional number is 0.        *)
(***************************************************************************)
IncomeEffect(fields) == fields @@ [resources |-> <<>>, count |-> 0, types |-> <<>>, conditional |-> FALSE, add_to_card |-> FALSE]

AbilityCost(fields) == fields @@ [cost_type |-> "", resources |-> <<>>, tag |-> "", must_be_different |-> TRUE, min_amount |-> 1, same_type |-> FALSE, types |-> <<>>]

AbilityEffect(fields) == fields @@ [effect_type |-> "", resources |-> <<>>, count |-> 0, types |-> <<>>, amount_from_paid |-> FALSE, different_from_paid |-> FALSE, green_cost |-> 0, avoid_cost |-> <<>>, target |-> "", target_card |-> "", source |-> "", discount |-> 0, discount_type |-> "", free |-> FALSE, card_filter |-> "", deck |-> "", discard_count |-> 0, check_resource |-> "", check_tag |-> "", bonus |-> 0]

Ability(costs, effects, trigger, trigger_filter) == [costs |-> costs, effects |-> effects, trigger |-> trigger, trigger_filter |-> trigger_filter]

PassiveEffect(fields) == fields @@ [effect_type |-> "", card_filter |-> "", amount |-> 0, reduction_type |-> "non_gold"]

\* effects is None for a card built without effects: present is then FALSE
CardEffects(income, cost, abilities, passives) == [present |-> TRUE, income |-> income, cost |-> cost, abilities |-> abilities, passives |-> passives]

NoEffects == [present |-> FALSE, income |-> None, cost |-> <<>>, abilities |-> <<>>, passives |-> <<>>]

Card(name, card_type, tags, points, effects) == [name |-> name, card_type |-> card_type, tags |-> tags, points |-> points, effects |-> effects]

\* Card(name=..., card_type=...) with everything else defaulted
PlainCards(names, card_type) == [i \in DOMAIN names |-> Card(names[i], card_type, {}, 0, NoEffects)]

(***************************************************************************)
(* cards.py: the catalog, in file order                                    *)
(***************************************************************************)
ARTIFACTS ==
    << Card("Athanor", "artifact", {}, 0,
                    CardEffects(None, << <<"gold", 1>>, <<"red", 1>> >>,
                                <<Ability(<<AbilityCost([cost_type |-> "tap"]), AbilityCost([cost_type |-> "pay", resources |-> << <<"red", 1>> >>])>>, <<AbilityEffect([effect_type |-> "add_to_card", resources |-> << <<"red", 2>> >>])>>, "", ""),
                                        Ability(<<AbilityCost([cost_type |-> "tap"]), AbilityCost([cost_type |-> "remove_from_card", resources |-> << <<"red", 6>> >>])>>, <<AbilityEffect([effect_type |-> "convert"])>>, "", "")>>,
                                <<>>)),
       Card("Bone Dragon", "artifact", {"dragon"}, 1,
                    CardEffects(None, << <<"black", 4>>, <<"green", 1>> >>,
                                <<Ability(<<AbilityCost([cost_type |-> "tap"])>>, <<AbilityEffect([effect_type |-> "attack", green_cost |-> 2, avoid_cost |-> << <<"black", 1>> >>])>>, "", "")>>,
                                <<>>)),
       Card("Celestial Horse", "artifact", {"animal"}, 0,
                    CardEffects(Some(IncomeEffect([count |-> 2, types |-> <<"red", "blue", "green">>])), << <<"blue", 2>>, <<"red", 1>> >>,
                                <<>>,
                                <<>>)),
       Card("Chalice of Fire", "artifact", {}, 0,
                    CardEffects(Some(IncomeEffect([count |-> 2, types |-> <<"red">>])), << <<"gold", 1>>, <<"red", 1>> >>,
                                <<Ability(<<AbilityCost([cost_type |-> "tap"]), AbilityCost([cost_type |-> "pay", resources |-> << <<"red", 1>> >>])>>, <<AbilityEffect([effect_type |-> "untap", target |-> "other"])>>, "", "")>>,
                                <<>>)),
       Card("Chalice of Life", "artifact", {}, 0,
                    CardEffects(Some(IncomeEffect([count |-> 1, types |-> <<"blue", "green">>])), << <<"blue", 1>>, <<"green", 1>>, <<"gold", 1>> >>,
                                <<Ability(<<AbilityCost([cost_type |-> "pay", resources |-> << <<"blue", 2>> >>])>>, <<AbilityEffect([effect_type |-> "add_to_card", resources |-> << <<"blue", 2>>, <<"green", 1>> >>])>>, "", "")>>,
                                <<>>)),
       Card("Corrupt Altar", "artifact", {}, 0,
                    CardEffects(Some(IncomeEffect([count |-> 1, types |-> <<"green", "black">>])), << <<"black", 2>>, <<"any", 3>> >>,
                                <<Ability(<<AbilityCost([cost_type |-> "pay", resources |-> << <<"green", 2>> >>])>>, <<AbilityEffect([effect_type |-> "add_to_card", resources |-> << <<"red", 3>> >>])>>, "", ""),
                                        Ability(<<AbilityCost([cost_type |-> "tap"]), AbilityCost([cost_type |-> "destroy_artifact", must_be_different |-> FALSE])>>, <<AbilityEffect([effect_type |-> "gain_from_destroyed", bonus |-> 2])>>, "", "")>>,
                                <<>>)),
       Card("Crypt", "artifact", {}, 0,
                    CardEffects(None, << <<"black", 2>>, <<"any", 3>> >>,
                                <<Ability(<<AbilityCost([cost_type |-> "tap"])>>, <<AbilityEffect([effect_type |-> "gain", resources |-> << <<"black", 2>> >>])>>, "", ""),
                                        Ability(<<AbilityCost([cost_type |-> "tap"]), AbilityCost([cost_type |-> "pay", resources |-> << <<"black", 1>> >>])>>, <<AbilityEffect([effect_type |-> "play_card", source |-> "discard", discount |-> 2, discount_type |-> "non_gold"])>>, "", "")>>,
                                <<>>)),
       Card("Cursed Skull", "artifact", {}, 0,
                    CardEffects(None, << <<"black", 2>> >>,
                                <<Ability(<<AbilityCost([cost_type |-> "tap"]), AbilityCost([cost_type |-> "pay", resources |-> << <<"green", 1>> >>])>>, <<AbilityEffect([effect_type |-> "add_to_card", count |-> 3, types |-> <<"red", "blue", "black">>])>>, "", "")>>,
                                <<>>)),
       Card("Dancing Sword", "artifact", {}, 0,
                    CardEffects(Some(IncomeEffect([count |-> 1, types |-> <<"black", "red">>])), << <<"gold", 1>>, <<"red", 1>> >>,
                                <<Ability(<<AbilityCost([cost_type |-> "pay", resources |-> << <<"red", 1>> >>])>>, <<AbilityEffect([effect_type |-> "ignore_attack"]), AbilityEffect([effect_type |-> "add_to_card", resources |-> << <<"black", 1>> >>])>>, "attacked", "")>>,
                                <<>>)),
       Card("Dragon Bridle", "artifact", {}, 1,
                    CardEffects(None, << <<"blue", 1>>, <<"green", 1>>, <<"red", 1>>, <<"black", 1>> >>,
                                <<Ability(<<AbilityCost([cost_type |-> "tap"])>>, <<AbilityEffect([effect_type |-> "ignore_attack"])>>, "attacked", "dragon")>>,
                                <<PassiveEffect([effect_type |-> "cost_reduction", card_filter |-> "dragon", amount |-> 3])>>)),
       Card("Dragon Egg", "artifact", {}, 1,
                    CardEffects(None, << <<"gold", 1>> >>,
                                <<Ability(<<AbilityCost([cost_type |-> "destroy_self"])>>, <<AbilityEffect([effect_type |-> "play_card", source |-> "hand", discount |-> 4, discount_type |-> "non_gold", card_filter |-> "dragon"])>>, "", "")>>,
                                <<>>)),
       Card("Dragon Teeth", "artifact", {}, 0,
                    CardEffects(None, << <<"red", 1>>, <<"black", 1>> >>,
                                <<Ability(<<AbilityCost([cost_type |-> "pay", resources |-> << <<"red", 2>> >>])>>, <<AbilityEffect([effect_type |-> "add_to_card", resources |-> << <<"red", 3>> >>])>>, "", ""),
                                        Ability(<<AbilityCost([cost_type |-> "tap"]), AbilityCost([cost_type |-> "pay", resources |-> << <<"red", 3>> >>])>>, <<AbilityEffect([effect_type |-> "play_card", source |-> "hand", discount |-> 0, discount_type |-> "non_gold", free |-> TRUE, card_filter |-> "dragon"])>>, "", "")>>,
                                <<>>)),
       Card("Dwarven Pickaxe", "artifact", {}, 0,
                    CardEffects(None, << <<"red", 1>> >>,
                                <<Ability(<<AbilityCost([cost_type |-> "tap"]), AbilityCost([cost_type |-> "pay", resources |-> << <<"red", 1>> >>])>>, <<AbilityEffect([effect_type |-> "gain", resources |-> << <<"gold", 1>> >>])>>, "", "")>>,
                                <<>>)),
       Card("Earth Dragon", "artifact", {"dragon"}, 1,
                    CardEffects(None, << <<"red", 4>>, <<"green", 3>> >>,
                                <<Ability(<<AbilityCost([cost_type |-> "tap"])>>, <<AbilityEffect([effect_type |-> "attack", green_cost |-> 2, avoid_cost |-> << <<"gold", 1>> >>])>>, "", "")>>,
                                <<>>)),
       Card("Elemental Spring", "artifact", {}, 0,
                    CardEffects(Some(IncomeEffect([count |-> 1, types |-> <<"blue", "green", "red">>])), << <<"red", 2>>, <<"blue", 1>>, <<"green", 1>> >>,
                                <<Ability(<<AbilityCost([cost_type |-> "pay", resources |-> << <<"blue", 1>> >>])>>, <<AbilityEffect([effect_type |-> "ignore_attack"])>>, "attacked", "")>>,
                                <<>>)),
       Card("Elvish Bow", "artifact", {}, 0,
                    CardEffects(None, << <<"red", 2>>, <<"green", 1>> >>,
                                <<Ability(<<AbilityCost([cost_type |-> "tap"])>>, <<AbilityEffect([effect_type |-> "draw", count |-> 1])>>, "", ""),
                                        Ability(<<AbilityCost([cost_type |-> "tap"])>>, <<AbilityEffect([effect_type |-> "attack", green_cost |-> 1])>>, "", "")>>,
                                <<>>)),
       Card("Fiery Whip", "artifact", {}, 0,
                    CardEffects(None, << <<"red", 2>>, <<"black", 2>> >>,
                                <<Ability(<<AbilityCost([cost_type |-> "tap"])>>, <<AbilityEffect([effect_type |-> "gain", resources |-> << <<"red", 3>> >>]), AbilityEffect([effect_type |-> "give_opponents", resources |-> << <<"red", 1>> >>])>>, "", ""),
                                        Ability(<<AbilityCost([cost_type |-> "tap"]), AbilityCost([cost_type |-> "destroy_artifact"])>>, <<AbilityEffect([effect_type |-> "gain_from_destroyed", bonus |-> 2])>>, "", "")>>,
                                <<>>)),
       Card("Fire Dragon", "artifact", {"dragon"}, 1,
                    CardEffects(None, << <<"red", 6>> >>,
                                <<Ability(<<AbilityCost([cost_type |-> "tap"])>>, <<AbilityEffect([effect_type |-> "attack", green_cost |-> 2, avoid_cost |-> << <<"blue", 1>> >>])>>, "", "")>>,
                                <<>>)),
       Card("Flaming Pit", "artifact", {}, 0,
                    CardEffects(Some(IncomeEffect([count |-> 1, types |-> <<"red">>])), << <<"red", 2>> >>,
                                <<Ability(<<AbilityCost([cost_type |-> "tap"]), AbilityCost([cost_type |-> "pay", resources |-> << <<"green", 1>> >>])>>, <<AbilityEffect([effect_type |-> "gain", resources |-> << <<"red", 1>>, <<"black", 1>> >>])>>, "", "")>>,
                                <<>>)),
       Card("Fountain of Youth", "artifact", {}, 0,
                    CardEffects(Some(IncomeEffect([count |-> 1, types |-> <<"green">>])), << <<"blue", 1>>, <<"black", 1>> >>,
                                <<Ability(<<AbilityCost([cost_type |-> "pay", resources |-> << <<"black", 2>> >>])>>, <<AbilityEffect([effect_type |-> "add_to_card", resources |-> << <<"blue", 2>>, <<"green", 1>> >>])>>, "", "")>>,
                                <<>>)),
       Card("Guard Dog", "artifact", {"animal"}, 0,
                    CardEffects(None, << <<"red", 1>> >>,
                                <<Ability(<<AbilityCost([cost_type |-> "pay", resources |-> << <<"red", 1>> >>])>>, <<AbilityEffect([effect_type |-> "untap", target |-> "self"])>>, "", ""),
                                        Ability(<<AbilityCost([cost_type |-> "tap"])>>, <<AbilityEffect([effect_type |-> "ignore_attack"])>>, "attacked", "")>>,
                                <<>>)),
       Card("Hand of Glory", "artifact", {}, 0,
                    CardEffects(None, << <<"green", 1>>, <<"black", 1>> >>,
                                <<Ability(<<AbilityCost([cost_type |-> "tap"])>>, <<AbilityEffect([effect_type |-> "gain", resources |-> << <<"black", 2>> >>]), AbilityEffect([effect_type |-> "give_opponents", resources |-> << <<"black", 1>> >>])>>, "", "")>>,
                                <<>>)),
       Card("Hawk", "artifact", {"animal"}, 0,
                    CardEffects(Some(IncomeEffect([count |-> 1, types |-> <<"blue">>])), << <<"blue", 1>>, <<"green", 1>> >>,
                                <<Ability(<<AbilityCost([cost_type |-> "tap"]), AbilityCost([cost_type |-> "pay", resources |-> << <<"blue", 2>> >>])>>, <<AbilityEffect([effect_type |-> "draw", count |-> 1])>>, "", ""),
                                        Ability(<<AbilityCost([cost_type |-> "tap"])>>, <<AbilityEffect([effect_type |-> "reorder_deck", count |-> 3, deck |-> "self_or_monuments"])>>, "", "")>>,
                                <<>>)),
       Card("Horn of Plenty", "artifact", {}, 0,
                    CardEffects(None, << <<"gold", 2>> >>,
                                <<Ability(<<AbilityCost([cost_type |-> "tap"])>>, <<AbilityEffect([effect_type |-> "gain", resources |-> << <<"gold", 1>> >>])>>, "", ""),
                                        Ability(<<AbilityCost([cost_type |-> "tap"])>>, <<AbilityEffect([effect_type |-> "gain", count |-> 3, types |-> <<"red", "blue", "green", "black">>])>>, "", "")>>,
                                <<>>)),
       Card("Hypnotic Basin", "artifact", {}, 0,
                    CardEffects(Some(IncomeEffect([count |-> 2, types |-> <<"blue">>])), << <<"blue", 2>>, <<"red", 1>>, <<"black", 1>> >>,
                                <<Ability(<<AbilityCost([cost_type |-> "tap"])>>, <<AbilityEffect([effect_type |-> "gain_per_opponent", resources |-> << <<"blue", 1>> >>, check_resource |-> "red"])>>, "", "")>>,
                                <<>>)),
       Card("Jeweled Statuette", "artifact", {}, 1,
                    CardEffects(None, << <<"black", 2>>, <<"gold", 1>> >>,
                                <<Ability(<<AbilityCost([cost_type |-> "tap"])>>, <<AbilityEffect([effect_type |-> "gain", resources |-> << <<"black", 3>> >>]), AbilityEffect([effect_type |-> "give_opponents", resources |-> << <<"black", 1>> >>])>>, "", ""),
                                        Ability(<<AbilityCost([cost_type |-> "destroy_self"])>>, <<AbilityEffect([effect_type |-> "gain", resources |-> << <<"gold", 2>>, <<"red", 1>> >>])>>, "", "")>>,
                                <<>>)),
       Card("Magical Shard", "artifact", {}, 0,
                    CardEffects(None, <<>>,
                                <<Ability(<<AbilityCost([cost_type |-> "tap"])>>, <<AbilityEffect([effect_type |-> "gain", count |-> 1, types |-> <<"red", "blue", "green", "black">>])>>, "", "")>>,
                                <<>>)),
       Card("Mermaid", "artifact", {"animal"}, 0,
                    CardEffects(Some(IncomeEffect([count |-> 1, types |-> <<"blue">>])), << <<"blue", 2>>, <<"green", 2>> >>,
                                <<Ability(<<AbilityCost([cost_type |-> "tap"]), AbilityCost([cost_type |-> "pay", resources |-> << <<"blue", 1>> >>])>>, <<AbilityEffect([effect_type |-> "add_to_card", resources |-> << <<"blue", 1>> >>, target |-> "other"])>>, "", ""),
                                        Ability(<<AbilityCost([cost_type |-> "tap"]), AbilityCost([cost_type |-> "pay", resources |-> << <<"green", 1>> >>])>>, <<AbilityEffect([effect_type |-> "add_to_card", resources |-> << <<"green", 1>> >>, target |-> "other"])>>, "", ""),
                                        Ability(<<AbilityCost([cost_type |-> "tap"]), AbilityCost([cost_type |-> "pay", resources |-> << <<"gold", 1>> >>])>>, <<AbilityEffect([effect_type |-> "add_to_card", resources |-> << <<"gold", 1>> >>, target |-> "other"])>>, "", "")>>,
                                <<>>)),
       Card("Nightingale", "artifact", {"animal"}, 1,
                    CardEffects(None, << <<"blue", 1>>, <<"green", 1>> >>,
                                <<>>,
                                <<>>)),
       Card("Philosopher's Stone", "artifact", {}, 1,
                    CardEffects(None, << <<"blue", 2>>, <<"green", 2>>, <<"black", 2>>, <<"red", 2>> >>,
                                <<Ability(<<AbilityCost([cost_type |-> "tap"]), AbilityCost([cost_type |-> "pay", resources |-> << <<"any", 2>> >>])>>, <<AbilityEffect([effect_type |-> "convert"])>>, "", "")>>,
                                <<>>)),
       Card("Prism", "artifact", {}, 0,
                    CardEffects(None, <<>>,
                                <<Ability(<<AbilityCost([cost_type |-> "tap"]), AbilityCost([cost_type |-> "pay", resources |-> << <<"any", 1>> >>])>>, <<AbilityEffect([effect_type |-> "gain", count |-> 2, types |-> <<"red", "blue", "green", "black">>])>>, "", ""),
                                        Ability(<<AbilityCost([cost_type |-> "tap"])>>, <<AbilityEffect([effect_type |-> "exchange", target |-> "non_gold"])>>, "", "")>>,
                                <<>>)),
       Card("Ring of Midas", "artifact", {}, 1,
                    CardEffects(None, << <<"green", 1>>, <<"gold", 1>> >>,
                                <<Ability(<<AbilityCost([cost_type |-> "tap"])>>, <<AbilityEffect([effect_type |-> "add_to_card", resources |-> << <<"gold", 1>> >>])>>, "", ""),
                                        Ability(<<AbilityCost([cost_type |-> "pay", resources |-> << <<"green", 2>> >>])>>, <<AbilityEffect([effect_type |-> "add_to_card", resources |-> << <<"gold", 1>> >>])>>, "", "")>>,
                                <<>>)),
       Card("Sacrificial Dagger", "artifact", {}, 0,
                    CardEffects(None, << <<"black", 1>>, <<"gold", 1>> >>,
                                <<Ability(<<AbilityCost([cost_type |-> "tap"]), AbilityCost([cost_type |-> "pay", resources |-> << <<"green", 1>> >>])>>, <<AbilityEffect([effect_type |-> "add_to_card", resources |-> << <<"black", 3>> >>])>>, "", ""),
                                        Ability(<<AbilityCost([cost_type |-> "tap"]), AbilityCost([cost_type |-> "destroy_self"]), AbilityCost([cost_type |-> "discard"])>>, <<AbilityEffect([effect_type |-> "gain_from_discarded"])>>, "", "")>>,
                                <<>>)),
       Card("Sea Serpent", "artifact", {"animal", "dragon"}, 1,
                    CardEffects(None, << <<"blue", 6>>, <<"green", 3>> >>,
                                <<Ability(<<AbilityCost([cost_type |-> "tap"])>>, <<AbilityEffect([effect_type |-> "attack", green_cost |-> 2, avoid_cost |-> << <<"destroy_artifact", 1>> >>])>>, "", "")>>,
                                <<>>)),
       Card("Treant", "artifact", {"animal"}, 0,
                    CardEffects(Some(IncomeEffect([count |-> 2, types |-> <<"green">>])), << <<"green", 3>>, <<"red", 2>> >>,
                                <<Ability(<<AbilityCost([cost_type |-> "tap"])>>, <<AbilityEffect([effect_type |-> "gain_per_opponent", resources |-> << <<"red", 1>> >>, check_resource |-> "black"])>>, "", "")>>,
                                <<>>)),
       Card("Tree of Life", "artifact", {}, 0,
                    CardEffects(None, << <<"green", 1>>, <<"any", 2>> >>,
                                <<Ability(<<AbilityCost([cost_type |-> "tap"])>>, <<AbilityEffect([effect_type |-> "gain", resources |-> << <<"green", 3>> >>]), AbilityEffect([effect_type |-> "give_opponents", resources |-> << <<"green", 1>> >>])>>, "", ""),
                                        Ability(<<AbilityCost([cost_type |-> "pay", resources |-> << <<"green", 1>> >>])>>, <<AbilityEffect([effect_type |-> "ignore_attack"])>>, "attacked", "")>>,
                                <<>>)),
       Card("Vault", "artifact", {}, 0,
                    CardEffects(Some(IncomeEffect([count |-> 2, types |-> <<"red", "blue", "green", "black">>, conditional |-> TRUE])), << <<"gold", 1>>, <<"any", 1>> >>,
                                <<Ability(<<AbilityCost([cost_type |-> "tap"])>>, <<AbilityEffect([effect_type |-> "add_to_card", resources |-> << <<"gold", 1>> >>])>>, "", "")>>,
                                <<>>)),
       Card("Water Dragon", "artifact", {"dragon"}, 1,
                    CardEffects(None, << <<"blue", 6>> >>,
                                <<Ability(<<AbilityCost([cost_type |-> "tap"])>>, <<AbilityEffect([effect_type |-> "attack", green_cost |-> 2, avoid_cost |-> << <<"red", 1>> >>])>>, "", "")>>,
                                <<>>)),
       Card("Wind Dragon", "artifact", {"dragon"}, 1,
                    CardEffects(None, << <<"blue", 4>>, <<"any", 4>> >>,
                                <<Ability(<<AbilityCost([cost_type |-> "tap"])>>, <<AbilityEffect([effect_type |-> "attack", green_cost |-> 2, avoid_cost |-> << <<"discard", 1>> >>])>>, "", "")>>,
                                <<>>)),
       Card("Windup Man", "artifact", {}, 0,
                    CardEffects(Some(IncomeEffect([count |-> 2, types |-> <<"red", "blue", "green", "black", "gold">>, conditional |-> TRUE, add_to_card |-> TRUE])), << <<"red", 1>>, <<"green", 1>>, <<"blue", 1>>, <<"gold", 1>> >>,
                                <<Ability(<<AbilityCost([cost_type |-> "tap"])>>, <<AbilityEffect([effect_type |-> "add_to_card", count |-> 1, types |-> <<"red", "blue", "green", "black", "gold">>])>>, "", "")>>,
                                <<>>)),
       Card("Chaos Imp", "artifact", {"demon"}, 0,
                    CardEffects(None, << <<"black", 1>>, <<"red", 1>> >>,
                                <<Ability(<<AbilityCost([cost_type |-> "tap"]), AbilityCost([cost_type |-> "pay", resources |-> << <<"green", 1>> >>])>>, <<AbilityEffect([effect_type |-> "untap", target |-> "demon"])>>, "", ""),
                                        Ability(<<AbilityCost([cost_type |-> "pay", resources |-> << <<"black", 1>>, <<"red", 1>> >>])>>, <<AbilityEffect([effect_type |-> "add_to_card", resources |-> << <<"black", 3>> >>])>>, "", "")>>,
                                <<>>)),
       Card("Cursed Dwarven King", "artifact", {"demon"}, 0,
                    CardEffects(None, << <<"black", 1>>, <<"green", 1>> >>,
                                <<Ability(<<AbilityCost([cost_type |-> "pay", resources |-> << <<"black", 1>>, <<"red", 1>>, <<"green", 1>> >>])>>, <<AbilityEffect([effect_type |-> "add_to_card", resources |-> << <<"gold", 2>> >>])>>, "", ""),
                                        Ability(<<AbilityCost([cost_type |-> "tap"]), AbilityCost([cost_type |-> "tap_card", tag |-> "dragon"])>>, <<AbilityEffect([effect_type |-> "gain", resources |-> << <<"gold", 1>> >>])>>, "", "")>>,
                                <<>>)),
       Card("Golden Lion", "artifact", {"animal"}, 1,
                    CardEffects(Some(IncomeEffect([count |-> 1, types |-> <<"blue", "green", "red">>])), << <<"red", 2>>, <<"green", 1>>, <<"blue", 1>>, <<"gold", 1>> >>,
                                <<Ability(<<AbilityCost([cost_type |-> "tap"])>>, <<AbilityEffect([effect_type |-> "ignore_attack"])>>, "attacked", "")>>,
                                <<>>)),
       Card("Homunculus", "artifact", {"demon"}, 0,
                    CardEffects(None, << <<"green", 1>> >>,
                                <<Ability(<<AbilityCost([cost_type |-> "tap"])>>, <<AbilityEffect([effect_type |-> "add_to_card", count |-> 2, types |-> <<"red", "blue", "green", "black">>])>>, "", "")>>,
                                <<PassiveEffect([effect_type |-> "cost_reduction", card_filter |-> "demon", amount |-> 2, reduction_type |-> "any"])>>)),
       Card("Hound of Death", "artifact", {"animal", "demon"}, 0,
                    CardEffects(Some(IncomeEffect([count |-> 2, types |-> <<"black">>])), << <<"green", 3>>, <<"black", 2>> >>,
                                <<Ability(<<AbilityCost([cost_type |-> "tap"]), AbilityCost([cost_type |-> "pay", resources |-> << <<"green", 1>> >>])>>, <<AbilityEffect([effect_type |-> "attack", green_cost |-> 2])>>, "", ""),
                                        Ability(<<AbilityCost([cost_type |-> "tap"])>>, <<AbilityEffect([effect_type |-> "gain_per_opponent", resources |-> << <<"black", 1>> >>, check_resource |-> "gold"])>>, "", "")>>,
                                <<>>)),
       Card("Infernal Engine", "artifact", {}, 0,
                    CardEffects(Some(IncomeEffect([count |-> 1, types |-> <<"red">>])), << <<"black", 1>> >>,
                                <<Ability(<<AbilityCost([cost_type |-> "tap"])>>, <<AbilityEffect([effect_type |-> "take_from_card", target |-> "other"])>>, "", ""),
                                        Ability(<<AbilityCost([cost_type |-> "tap"]), AbilityCost([cost_type |-> "pay", resources |-> << <<"any", 1>> >>])>>, <<AbilityEffect([effect_type |-> "add_paid_to_card"])>>, "", "")>>,
                                <<>>)),
       Card("Possessed Demon Slayer", "artifact", {"demon"}, 1,
                    CardEffects(None, << <<"black", 1>>, <<"red", 1>>, <<"gold", 1>> >>,
                                <<Ability(<<AbilityCost([cost_type |-> "tap"])>>, <<AbilityEffect([effect_type |-> "gain_per_opponent_count", resources |-> << <<"red", 1>> >>, check_tag |-> "demon"])>>, "", ""),
                                        Ability(<<>>, <<AbilityEffect([effect_type |-> "ignore_attack"])>>, "attacked", "demon")>>,
                                <<>>)),
       Card("Prismatic Dragon", "artifact", {"dragon"}, 1,
                    CardEffects(Some(IncomeEffect([count |-> 1, types |-> <<"red", "blue", "green", "black">>])), << <<"green", 2>>, <<"blue", 2>>, <<"red", 2>> >>,
                                <<Ability(<<AbilityCost([cost_type |-> "tap"]), AbilityCost([cost_type |-> "pay", resources |-> << <<"gold", 1>> >>])>>, <<AbilityEffect([effect_type |-> "add_to_card", count |-> 4, types |-> <<"red", "blue", "green", "black">>])>>, "", "")>>,
                                <<>>)),
       Card("Shadowy Figure", "artifact", {"demon"}, 0,
                    CardEffects(Some(IncomeEffect([count |-> 1, types |-> <<"blue">>])), << <<"blue", 2>>, <<"black", 2>> >>,
                                <<Ability(<<AbilityCost([cost_type |-> "tap"]), AbilityCost([cost_type |-> "pay", resources |-> << <<"green", 1>> >>])>>, <<AbilityEffect([effect_type |-> "gain", resources |-> << <<"blue", 3>> >>])>>, "", ""),
                                        Ability(<<AbilityCost([cost_type |-> "tap"]), AbilityCost([cost_type |-> "pay", resources |-> << <<"blue", 1>> >>])>>, <<AbilityEffect([effect_type |-> "draw_discard", count |-> 2, discard_count |-> 1])>>, "", "")>>,
                                <<>>)),
       Card("Vial of Light", "artifact", {}, 0,
                    CardEffects(None, <<>>,
                                <<Ability(<<AbilityCost([cost_type |-> "tap"]), AbilityCost([cost_type |-> "pay", resources |-> << <<"black", 1>> >>])>>, <<AbilityEffect([effect_type |-> "gain", resources |-> << <<"green", 1>>, <<"red", 1>> >>])>>, "", ""),
                                        Ability(<<>>, <<AbilityEffect([effect_type |-> "gain", count |-> 1, types |-> <<"red", "blue", "green">>])>>, "artifact_destroyed", "")>>,
                                <<>>)),
       Card("Vortex of Destruction", "artifact", {"demon"}, 0,
                    CardEffects(Some(IncomeEffect([count |-> 1, types |-> <<"black", "red">>])), << <<"green", 2>>, <<"red", 2>>, <<"black", 1>> >>,
                                <<Ability(<<AbilityCost([cost_type |-> "tap"]), AbilityCost([cost_type |-> "pay", resources |-> << <<"green", 1>> >>])>>, <<AbilityEffect([effect_type |-> "gain", resources |-> << <<"black", 3>> >>])>>, "", ""),
                                        Ability(<<AbilityCost([cost_type |-> "tap"]), AbilityCost([cost_type |-> "destroy_artifact"])>>, <<AbilityEffect([effect_type |-> "gain_from_destroyed", bonus |-> 2])>>, "", "")>>,
                                <<>>)),
       Card("Fire Demon", "artifact", {"demon"}, 0,
                    CardEffects(Some(IncomeEffect([count |-> 1, types |-> <<"red">>])), << <<"red", 2>>, <<"black", 2>> >>,
                                <<Ability(<<AbilityCost([cost_type |-> "tap"]), AbilityCost([cost_type |-> "pay", resources |-> << <<"green", 1>> >>])>>, <<AbilityEffect([effect_type |-> "gain", resources |-> << <<"red", 3>> >>])>>, "", ""),
                                        Ability(<<AbilityCost([cost_type |-> "tap"]), AbilityCost([cost_type |-> "pay", resources |-> << <<"red", 1>> >>])>>, <<AbilityEffect([effect_type |-> "attack", green_cost |-> 2])>>, "", "")>>,
                                <<>>)) >>

MAGES == PlainCards(<<"Alchemist", "Artificer", "Bard", "Beastmaster", "Demonologist", "Diviner", "Druid", "Duelist", "Healer", "Necromancer", "Scholar", "Seer", "Transmuter", "Witch">>, "mage")

MONUMENTS == PlainCards(<<"Golden Statue", "Hanging Gardens", "Library", "Obelisk", "Solomon's Mine", "Colossus", "Mausoleum", "Oracle", "Temple", "Great Pyramid", "Dark Cathedral", "Demon Workshop", "Warrior's Hall", "Alchemical Lab">>, "monument")

MAGIC_ITEMS == PlainCards(<<"Alchemy", "Calm | Elan", "Death | Life", "Divination", "Protection", "Reanimate", "Research", "Transmutation", "Illusion", "Inscription">>, "magic_item")

SCROLLS == PlainCards(<<"Augury", "Destruction", "Disjunction", "Projection", "Revivify", "Shield", "Transform", "Vitality">>, "scroll")

PLACES_OF_POWER_PAIRS ==
    << << Card("Alchemist's Tower", "place_of_power", {}, 0,
                    CardEffects(None, << <<"gold", 3>> >>,
                                <<>>,
                                <<>>)),
          Card("Sacred Grove", "place_of_power", {}, 0,
                    CardEffects(None, << <<"green", 8>>, <<"blue", 4>> >>,
                                <<>>,
                                <<>>)) >>,
       << Card("Catacombs of the Dead", "place_of_power", {}, 0,
                    CardEffects(None, << <<"black", 9>> >>,
                                <<>>,
                                <<>>)),
          Card("Sacrificial Pit", "place_of_power", {}, 0,
                    CardEffects(None, << <<"red", 8>>, <<"black", 4>> >>,
                                <<>>,
                                <<>>)) >>,
       << Card("Coral Castle", "place_of_power", {}, 0,
                    CardEffects(None, << <<"green", 5>>, <<"blue", 5>>, <<"red", 5>> >>,
                                <<>>,
                                <<>>)),
          Card("Sunken Reef", "place_of_power", {}, 0,
                    CardEffects(None, << <<"blue", 5>>, <<"green", 2>>, <<"red", 2>> >>,
                                <<>>,
                                <<>>)) >>,
       << Card("Cursed Forge", "place_of_power", {}, 0,
                    CardEffects(None, << <<"red", 6>>, <<"black", 3>> >>,
                                <<>>,
                                <<>>)),
          Card("Dwarven Mines", "place_of_power", {}, 0,
                    CardEffects(None, << <<"red", 4>>, <<"green", 2>>, <<"gold", 1>> >>,
                                <<>>,
                                <<>>)) >>,
       << Card("Dragon's Lair", "place_of_power", {}, 0,
                    CardEffects(None, << <<"green", 3>>, <<"blue", 3>>, <<"red", 3>>, <<"black", 3>> >>,
                                <<>>,
                                <<>>)),
          Card("Sorcerer's Bestiary", "place_of_power", {}, 0,
                    CardEffects(None, << <<"green", 4>>, <<"red", 2>>, <<"blue", 2>>, <<"black", 2>> >>,
                                <<>>,
                                <<>>)) >>,
       << Card("Crystal Keep", "place_of_power", {}, 0,
                    CardEffects(None, << <<"gold", 4>>, <<"red", 4>>, <<"blue", 4>>, <<"green", 4>>, <<"black", 4>> >>,
                                <<>>,
                                <<>>)),
          Card("Dragon Aerie", "place_of_power", {}, 0,
                    CardEffects(None, << <<"red", 8>>, <<"green", 4>> >>,
                                <<>>,
                                <<>>)) >>,
       << Card("Gate of Hell", "place_of_power", {}, 0,
                    CardEffects(None, << <<"red", 6>>, <<"black", 3>> >>,
                                <<>>,
                                <<>>)),
          Card("Temple of the Abyss", "place_of_power", {}, 0,
                    CardEffects(None, << <<"blue", 6>>, <<"black", 3>> >>,
                                <<>>,
                                <<>>)) >> >>

\* the names of a list of cards: zones hold cards by name
Names(cards) == [i \in DOMAIN cards |-> cards[i].name]

AllCards == ARTIFACTS \o MAGES \o MONUMENTS \o MAGIC_ITEMS \o SCROLLS \o [i \in 1..(2 * Len(PLACES_OF_POWER_PAIRS)) |-> PLACES_OF_POWER_PAIRS[(i + 1) \div 2][2 - (i % 2)]]

CardByName == [n \in {AllCards[i].name : i \in DOMAIN AllCards} |-> AllCards[CHOOSE i \in DOMAIN AllCards : AllCards[i].name = n]]

\* the card behind a name; the placeholder Card(name="") of an empty mage or magic-item slot has no effects
CardOf(name) == IF name \in DOMAIN CardByName THEN CardByName[name] ELSE Card(name, "mage", {}, 0, NoEffects)

(***************************************************************************)
(* What an operation hands back: the game after it, its success/failure    *)
(* signal, and whether it ended in a raised error instead of returning.    *)
(***************************************************************************)
Ret(g, ok) == [g |-> g, ok |-> ok, raised |-> FALSE]

Raised(g) == [g |-> g, ok |-> FALSE, raised |-> TRUE]

NumPlayers(g) == Cardinality(DOMAIN g.players)

PlayerIds(g) == DOMAIN g.players

\* PlayerState.all_controlled_cards
all_controlled_cards(player) == <<player.mage, player.magic_item>> \o player.artifacts \o player.monuments \o player.places_of_power

\* GameState.first_player: the first player in list order holding the token, NoPlayer for None
first_player(g) == IF \E p \in PlayerIds(g) : g.players[p].has_first_player_token THEN CHOOSE p \in PlayerIds(g) : g.players[p].has_first_player_token /\ \A q \in PlayerIds(g) : q < p => ~g.players[q].has_first_player_token ELSE NoPlayer

(***************************************************************************)
(* Setup: create_new_game                                                  *)
(***************************************************************************)
MinPlayers == 2

MaxPlayers == 4

\* cards dealt to a player per draft round, and the split of the drafted cards
DraftBatch == 4

HandSize == 3

\* select_places_of_power: pairs is the shuffled pair list, sides[i] the side picked of pair i
select_places_of_power(num_players, pairs, sides) == [i \in 1..Min(num_players + 2, Len(pairs)) |-> pairs[i][sides[i] + 1].name]

\* select_monuments: (available, deck) out of the shuffled monuments
select_monuments(num_players, all_monuments) == LET total == CASE num_players = 2 -> 7 [] num_players = 3 -> 10 [] num_players = 4 -> 12 [] OTHER -> 10
                                                   selected == Names(SubSeq(all_monuments, 1, total))
                                               IN [available |-> SubSeq(selected, 1, 2), deck |-> SubSeq(selected, 3, Len(selected))]

create_empty_player(player_id) == [player_id |-> player_id, mage |-> ControlledCard(""), magic_item |-> ControlledCard(""), artifacts |-> <<>>, monuments |-> <<>>, places_of_power |-> <<>>, scrolls |-> <<>>, hand |-> <<>>, deck |-> <<>>, discard |-> <<>>, resources |-> NoRes, has_first_player_token |-> FALSE, first_player_token_face_up |-> TRUE]

\* first_player, pairs, sides and all_monuments are the outcomes of the random draws
create_new_game(num_players, first_player_id, pairs, sides, all_monuments) == LET mons == select_monuments(num_players, all_monuments)
                                                                                 IN [players |-> [i \in 0..(num_players - 1) |-> [create_empty_player(i) EXCEPT !.has_first_player_token = (i = first_player_id)]],
                                                                                     phase |-> "setup",
                                                                                     draft_state |-> None,
                                                                                     income_state |-> None,
                                                                                     action_state |-> None,
                                                                                     available_monuments |-> mons.available,
                                                                                     monument_deck |-> mons.deck,
                                                                                     available_places_of_power |-> select_places_of_power(num_players, pairs, sides),
                                                                                     available_magic_items |-> Names(MAGIC_ITEMS),
                                                                                     available_scrolls |-> Names(SCROLLS),
                                                                                     remaining_artifacts |-> <<>>,
                                                                                     victory_result |-> None]

(***************************************************************************)
(* Draft: deal, pick and pass                                              *)
(***************************************************************************)
\* all_mages and all_artifacts are the shuffled decks; each player pops 2 mages and 4 artifacts
deal_initial_cards(g, all_mages, all_artifacts) == LET n == NumPlayers(g)
                                                       draft == [cards_to_pick |-> [i \in PlayerIds(g) |-> PopMany(AfterPop(all_artifacts, DraftBatch * i), DraftBatch)],
                                                                 cards_to_pass |-> [i \in PlayerIds(g) |-> <<>>],
                                                                 drafted_cards |-> [i \in PlayerIds(g) |-> <<>>],
                                                                 mage_options |-> [i \in PlayerIds(g) |-> PopMany(AfterPop(all_mages, 2 * i), 2)],
                                                                 selected_mage |-> [i \in PlayerIds(g) |-> ""],
                                                                 magic_item_selector |-> NoPlayer]
                                                   IN [g EXCEPT !.draft_state = Some(draft), !.remaining_artifacts = AfterPop(all_artifacts, DraftBatch * n), !.phase = "drafting_round_1"]

\* a pick that leaves the rest of the offer with the picker
player_picks_card_keeping_offer(g, player_id, card) == IF g.phase \notin {"drafting_round_1", "drafting_round_2"} THEN Ret(g, FALSE)
                                                       ELSE LET draft == g.draft_state[1]
                                                            IN IF player_id \notin DOMAIN draft.cards_to_pick THEN Raised(g)
                                                               ELSE IF ~Contains(draft.cards_to_pick[player_id], card) THEN Ret(g, FALSE)
                                                               ELSE LET rest == ListRemove(draft.cards_to_pick[player_id], card)
                                                                        d2 == [draft EXCEPT !.drafted_cards[player_id] = Append(@, card), !.cards_to_pass[player_id] = rest, !.cards_to_pick[player_id] = rest]
                                                                    IN Ret([g EXCEPT !.draft_state = Some(d2)], TRUE)

\* a pick that names a player without an entry in cards_to_pick ends in KeyError
player_picks_card(g, player_id, card) == IF g.phase \notin {"drafting_round_1", "drafting_round_2"} THEN Ret(g, FALSE)
                                         ELSE LET draft == g.draft_state[1]
                                              IN IF player_id \notin DOMAIN draft.cards_to_pick THEN Raised(g)
                                                 ELSE IF ~Contains(draft.cards_to_pick[player_id], card) THEN Ret(g, FALSE)
                                                 ELSE LET rest == ListRemove(draft.cards_to_pick[player_id], card)
                                                          d2 == [draft EXCEPT !.drafted_cards[player_id] = Append(@, card), !.cards_to_pass[player_id] = rest, !.cards_to_pick[player_id] = <<>>]
                                                      IN Ret([g EXCEPT !.draft_state = Some(d2)], TRUE)

all_players_have_picked(g) == LET draft == g.draft_state[1]
                              IN Cardinality({Len(draft.drafted_cards[i]) : i \in PlayerIds(g)}) = 1

pass_cards_one_way(g) == LET draft == g.draft_state[1]
                             n == NumPlayers(g)
                             d2 == [draft EXCEPT !.cards_to_pick = [i \in PlayerIds(g) |-> draft.cards_to_pass[(i - 1) % n]], !.cards_to_pass = [i \in PlayerIds(g) |-> <<>>]]
                         IN [g EXCEPT !.draft_state = Some(d2)]

\* round 1 hands player i the cards of player i-1, round 2 those of player i+1
pass_cards(g) == LET draft == g.draft_state[1]
                     n == NumPlayers(g)
                     clockwise == g.phase = "drafting_round_1"
                     source(i) == IF clockwise THEN (i - 1) % n ELSE (i + 1) % n
                     d2 == [draft EXCEPT !.cards_to_pick = [i \in PlayerIds(g) |-> draft.cards_to_pass[source(i)]], !.cards_to_pass = [i \in PlayerIds(g) |-> <<>>]]
                 IN [g EXCEPT !.draft_state = Some(d2)]

is_draft_round_complete(g) == \A i \in PlayerIds(g) : Len(g.draft_state[1].cards_to_pass[i]) = 0

start_draft_round_2(g) == LET remaining == g.remaining_artifacts
                              n == NumPlayers(g)
                          IN [g EXCEPT !.draft_state[1].cards_to_pick = [i \in PlayerIds(g) |-> PopMany(AfterPop(remaining, DraftBatch * i), DraftBatch)], !.remaining_artifacts = AfterPop(remaining, DraftBatch * n), !.phase = "drafting_round_2"]

start_mage_selection_skipping(g) == [g EXCEPT !.phase = "magic_item_selection"]

start_mage_selection(g) == [g EXCEPT !.phase = "mage_selection"]

\* what draft_pick and bot_handle_draft run after a successful pick
advance_draft(g) == IF all_players_have_picked(g) THEN IF is_draft_round_complete(g) THEN IF g.phase = "drafting_round_1" THEN start_draft_round_2(g) ELSE start_mage_selection(g) ELSE pass_cards(g) ELSE g

(***************************************************************************)
(* Mage and magic-item selection                                           *)
(***************************************************************************)
\* a selection that names a player without mage options ends in KeyError
player_selects_mage(g, player_id, mage) == IF g.phase # "mage_selection" THEN Ret(g, FALSE)
                                           ELSE LET draft == g.draft_state[1]
                                                IN IF player_id \notin DOMAIN draft.mage_options THEN Raised(g)
                                                   ELSE IF ~Contains(draft.mage_options[player_id], mage) THEN Ret(g, FALSE)
                                                   ELSE Ret([g EXCEPT !.draft_state[1].selected_mage[player_id] = mage], TRUE)

all_mages_selected(g) == \A i \in PlayerIds(g) : g.draft_state[1].selected_mage[i] # ""

reveal_mages_and_start_magic_items_forward(g) == LET draft == g.draft_state[1]
                                                 IN [g EXCEPT !.players = [i \in PlayerIds(g) |-> [g.players[i] EXCEPT !.mage = ControlledCard(draft.selected_mage[i])]],
                                                              !.draft_state[1].magic_item_selector = first_player(g),
                                                              !.phase = "magic_item_selection"]

reveal_mages_and_start_magic_items(g) == LET draft == g.draft_state[1]
                                             n == NumPlayers(g)
                                             last_player == (first_player(g) - 1) % n
                                         IN [g EXCEPT !.players = [i \in PlayerIds(g) |-> [g.players[i] EXCEPT !.mage = ControlledCard(draft.selected_mage[i])]],
                                                      !.draft_state[1].magic_item_selector = last_player,
                                                      !.phase = "magic_item_selection"]

\* the cards stay as they are: nothing is untapped
start_income_phase_tapped(g) == LET first == first_player(g)
                                    income == [finalized |-> [i \in PlayerIds(g) |-> FALSE],
                                               waiting_for_earlier |-> [i \in PlayerIds(g) |-> FALSE],
                                               collection_choices |-> [i \in PlayerIds(g) |-> <<>>],
                                               income_choices |-> [i \in PlayerIds(g) |-> <<>>],
                                               auto_skip_places_of_power |-> [i \in PlayerIds(g) |-> TRUE]]
                                IN [g EXCEPT !.players = [i \in PlayerIds(g) |-> [g.players[i] EXCEPT !.first_player_token_face_up = IF i = first THEN TRUE ELSE @]], !.income_state = Some(income), !.phase = "income"]

\* untap everything, turn the token face up, open the income bookkeeping
start_income_phase(g) == LET untap(cards) == [i \in DOMAIN cards |-> [cards[i] EXCEPT !.tapped = FALSE]]
                             first == first_player(g)
                             refresh(p) == [p EXCEPT !.mage.tapped = FALSE, !.magic_item.tapped = FALSE, !.artifacts = untap(@), !.monuments = untap(@), !.places_of_power = untap(@),
                                                     !.first_player_token_face_up = IF p.player_id = first THEN TRUE ELSE @]
                             income == [finalized |-> [i \in PlayerIds(g) |-> FALSE],
                                        waiting_for_earlier |-> [i \in PlayerIds(g) |-> FALSE],
                                        collection_choices |-> [i \in PlayerIds(g) |-> <<>>],
                                        income_choices |-> [i \in PlayerIds(g) |-> <<>>],
                                        auto_skip_places_of_power |-> [i \in PlayerIds(g) |-> TRUE]]
                         IN [g EXCEPT !.players = [i \in PlayerIds(g) |-> refresh(g.players[i])], !.income_state = Some(income), !.phase = "income"]

\* shuffled[i] is the outcome of shuffling player i's drafted cards
setup_starting_hands(g, shuffled) == start_income_phase([g EXCEPT !.players = [i \in PlayerIds(g) |-> [g.players[i] EXCEPT !.hand = SubSeq(shuffled[i], 1, Min(HandSize, Len(shuffled[i]))), !.deck = SubSeq(shuffled[i], HandSize + 1, Len(shuffled[i]))]],
                                                                  !.draft_state = None])

\* sh names the outcome of the shuffles of the drafted cards
player_takes_magic_item(g, player_id, magic_item, sh) == IF g.phase # "magic_item_selection" THEN Ret(g, FALSE)
                                                                 ELSE LET draft == g.draft_state[1]
                                                                      IN IF player_id # draft.magic_item_selector THEN Ret(g, FALSE)
                                                                         ELSE IF ~Contains(g.available_magic_items, magic_item) THEN Ret(g, FALSE)
                                                                         ELSE LET n == NumPlayers(g)
                                                                                  next_selector == (draft.magic_item_selector - 1) % n
                                                                                  g1 == [g EXCEPT !.players[player_id].magic_item = ControlledCard(magic_item), !.available_magic_items = ListRemove(@, magic_item)]
                                                                                  all_have_items == \A i \in PlayerIds(g1) : g1.players[i].magic_item.card # ""
                                                                              IN IF all_have_items THEN Ret(setup_starting_hands(g1, [i \in PlayerIds(g1) |-> Shuffled(draft.drafted_cards[i], sh)]), TRUE)
                                                                                 ELSE Ret([g1 EXCEPT !.draft_state[1].magic_item_selector = next_selector], TRUE)

(***************************************************************************)
(* Resource pools: resource_count / add_resource / remove_resource         *)
(***************************************************************************)
add_resource(pool, rt, amount) == [pool EXCEPT ![rt] = @ + amount]

\* remove_resource: ok is FALSE, and nothing is removed, when the pool holds less
remove_resource(pool, rt, amount) == IF pool[rt] < amount THEN [pool |-> pool, ok |-> FALSE] ELSE [pool |-> [pool EXCEPT ![rt] = @ - amount], ok |-> TRUE]

RECURSIVE add_all(_, _)
\* for rt, amount in resources.items(): add_resource(rt, amount)
add_all(pool, resources) == IF Len(resources) = 0 THEN pool ELSE add_all(add_resource(pool, Head(resources)[1], Head(resources)[2]), Tail(resources))

(***************************************************************************)
(* Controlled cards of a player, addressed by zone and position            *)
(***************************************************************************)
\* the places of all_controlled_cards(), in its order
CardPlaces(player) == <<[zone |-> "mage", idx |-> 0], [zone |-> "magic_item", idx |-> 0]>> \o [i \in DOMAIN player.artifacts |-> [zone |-> "artifacts", idx |-> i]] \o [i \in DOMAIN player.monuments |-> [zone |-> "monuments", idx |-> i]] \o [i \in DOMAIN player.places_of_power |-> [zone |-> "places_of_power", idx |-> i]]

CardAt(player, place) == CASE place.zone = "mage" -> player.mage [] place.zone = "magic_item" -> player.magic_item [] place.zone = "artifacts" -> player.artifacts[place.idx] [] place.zone = "monuments" -> player.monuments[place.idx] [] OTHER -> player.places_of_power[place.idx]

SetCardAt(player, place, cc) == CASE place.zone = "mage" -> [player EXCEPT !.mage = cc] [] place.zone = "magic_item" -> [player EXCEPT !.magic_item = cc] [] place.zone = "artifacts" -> [player EXCEPT !.artifacts[place.idx] = cc] [] place.zone = "monuments" -> [player EXCEPT !.monuments[place.idx] = cc] [] OTHER -> [player EXCEPT !.places_of_power[place.idx] = cc]

(***************************************************************************)
(* Income phase                                                            *)
(***************************************************************************)
find_controlled_card(player, card_name) == LET places == CardPlaces(player)
                                               hits == {i \in DOMAIN places : CardAt(player, places[i]).card = card_name}
                                           IN IF hits = {} THEN None ELSE Some(places[CHOOSE i \in hits : \A j \in hits : i <= j])

\* the bookkeeping of a player id that has no entry ends in KeyError
set_collection_choice(g, player_id, card_name, take_all) == IF g.phase # "income" THEN Ret(g, FALSE)
                                                            ELSE LET income_state == g.income_state[1]
                                                                 IN IF player_id \notin DOMAIN income_state.finalized THEN Raised(g)
                                                                    ELSE IF income_state.finalized[player_id] THEN Ret(g, FALSE)
                                                                    ELSE IF find_controlled_card(g.players[player_id], card_name) = None THEN Ret(g, FALSE)
                                                                    ELSE Ret([g EXCEPT !.income_state[1].collection_choices[player_id] = DictPut(@, card_name, take_all)], TRUE)

\* the amounts of the choice are not added up
choose_income_of_any_total(g, player_id, card_name, resources, effects) == IF ~effects.present \/ effects.income = None THEN Ret(g, FALSE)
                                                                           ELSE IF ~(\A i \in DOMAIN resources : Contains(effects.income[1].types, resources[i][1])) THEN Ret(g, FALSE)
                                                                           ELSE Ret([g EXCEPT !.income_state[1].income_choices[player_id] = DictPut(@, card_name, resources)], TRUE)

\* set_income_choice once the card is found among the controlled cards
choose_income(g, player_id, card_name, resources, effects) == IF ~effects.present \/ effects.income = None THEN Ret(g, FALSE)
                                                              ELSE IF ~(\A i \in DOMAIN resources : Contains(effects.income[1].types, resources[i][1])) THEN Ret(g, FALSE)
                                                              ELSE IF DictSum(resources) # effects.income[1].count THEN Ret(g, FALSE)
                                                              ELSE Ret([g EXCEPT !.income_state[1].income_choices[player_id] = DictPut(@, card_name, resources)], TRUE)

set_income_choice(g, player_id, card_name, resources) == IF g.phase # "income" THEN Ret(g, FALSE)
                                                         ELSE IF player_id \notin DOMAIN g.income_state[1].finalized THEN Raised(g)
                                                         ELSE IF g.income_state[1].finalized[player_id] THEN Ret(g, FALSE)
                                                         ELSE IF find_controlled_card(g.players[player_id], card_name) = None THEN Ret(g, FALSE)
                                                         ELSE choose_income(g, player_id, card_name, resources, CardOf(card_name).effects)

\* no check of the player id: an unknown id gets an entry of its own
set_auto_skip_places_of_power(g, player_id, auto_skip) == IF g.phase # "income" THEN Ret(g, FALSE)
                                                          ELSE LET old == g.income_state[1].auto_skip_places_of_power
                                                               IN Ret([g EXCEPT !.income_state[1].auto_skip_places_of_power = [i \in DOMAIN old \cup {player_id} |-> IF i = player_id THEN auto_skip ELSE old[i]]], TRUE)

player_waits_for_earlier(g, player_id) == IF g.phase # "income" THEN Ret(g, FALSE)
                                          ELSE LET income_state == g.income_state[1]
                                               IN IF player_id \notin DOMAIN income_state.finalized THEN Raised(g)
                                                  ELSE IF income_state.finalized[player_id] THEN Ret(g, FALSE)
                                                  ELSE IF g.players[player_id].has_first_player_token THEN Ret(g, FALSE)
                                                  ELSE Ret([g EXCEPT !.income_state[1].waiting_for_earlier[player_id] = TRUE], TRUE)

get_turn_order(g) == LET n == NumPlayers(g) IN [i \in 1..n |-> (first_player(g) + i - 1) % n]

\* a waiting player is held back until every player of the turn order has finalized
can_player_finalize_after_all(g, player_id) == IF g.phase # "income" THEN Ret(g, FALSE)
                                               ELSE LET income_state == g.income_state[1]
                                                        turn_order == get_turn_order(g)
                                                    IN IF player_id \notin DOMAIN income_state.finalized THEN Raised(g)
                                                       ELSE IF income_state.finalized[player_id] THEN Ret(g, FALSE)
                                                       ELSE IF ~income_state.waiting_for_earlier[player_id] THEN Ret(g, TRUE)
                                                       ELSE Ret(g, \A k \in 1..Len(turn_order) : income_state.finalized[turn_order[k]])

\* a waiting player is never held back
can_player_finalize_at_once(g, player_id) == IF g.phase # "income" THEN Ret(g, FALSE)
                                             ELSE IF player_id \notin DOMAIN g.income_state[1].finalized THEN Raised(g)
                                             ELSE Ret(g, ~g.income_state[1].finalized[player_id])

\* ok is the answer; raised marks the KeyError of an unknown player id
can_player_finalize(g, player_id) == IF g.phase # "income" THEN Ret(g, FALSE)
                                     ELSE LET income_state == g.income_state[1]
                                              turn_order == get_turn_order(g)
                                          IN IF player_id \notin DOMAIN income_state.finalized THEN Raised(g)
                                             ELSE IF income_state.finalized[player_id] THEN Ret(g, FALSE)
                                             ELSE IF ~income_state.waiting_for_earlier[player_id] THEN Ret(g, TRUE)
                                             ELSE Ret(g, \A k \in 1..(IndexOf(turn_order, player_id) - 1) : income_state.finalized[turn_order[k]])

all_income_finalized(g) == g.phase = "income" /\ g.income_state # None /\ \A i \in PlayerIds(g) : g.income_state[1].finalized[i]

RECURSIVE collect_resources(_, _, _, _)
\* first loop of apply_income_and_advance over the places of one player
collect_resources(player, places, choices, auto_skip) == IF Len(places) = 0 THEN player
                                                         ELSE LET cc == CardAt(player, Head(places))
                                                                  take_all == cc.card # "" /\ DictGet(choices, cc.card, FALSE) /\ ~(CardOf(cc.card).card_type = "place_of_power" /\ auto_skip)
                                                                  taken == IF take_all THEN [SetCardAt(player, Head(places), [cc EXCEPT !.resources = NoRes]) EXCEPT !.resources = [r \in Resources |-> @[r] + cc.resources[r]]] ELSE player
                                                              IN collect_resources(taken, Tail(places), choices, auto_skip)

\* what an income effect adds to the pool; chosen is the player's choice for the card, empty when none was made
income_gain(pool, income, chosen) == IF Len(income.resources) > 0 THEN add_all(pool, income.resources)
                                     ELSE IF Len(income.types) > 0 /\ income.count > 0
                                          THEN IF Len(income.types) = 1 THEN add_resource(pool, income.types[1], income.count)
                                               ELSE IF Len(chosen) > 0 THEN add_all(pool, chosen)
                                               ELSE add_resource(pool, income.types[1], income.count)
                                     ELSE pool

\* what one card's income adds to the pool
income_from(pool, card_name, effects, choices) == IF card_name = "" \/ ~effects.present \/ effects.income = None THEN pool ELSE income_gain(pool, effects.income[1], DictGet(choices, card_name, <<>>))

income_of(pool, card_name, choices) == income_from(pool, card_name, CardOf(card_name).effects, choices)

RECURSIVE generate_income(_, _, _)
\* second loop of apply_income_and_advance over the places of one player
generate_income(player, places, choices) == IF Len(places) = 0 THEN player
                                            ELSE generate_income([player EXCEPT !.resources = income_of(@, CardAt(player, Head(places)).card, choices)], Tail(places), choices)

start_action_phase(g) == LET first == first_player(g)
                             first_player_id == IF first # NoPlayer THEN first ELSE 0
                         IN [g EXCEPT !.action_state = Some([current_player |-> first_player_id, passed |-> [i \in PlayerIds(g) |-> FALSE]]), !.phase = "playing"]

\* the auto-skip preference is not looked at
income_for_unskipped(player, collection_choices, income_choices, auto_skip) == generate_income(collect_resources(player, CardPlaces(player), collection_choices, FALSE), CardPlaces(player), income_choices)

\* both loops of apply_income_and_advance for one player
income_for(player, collection_choices, income_choices, auto_skip) == generate_income(collect_resources(player, CardPlaces(player), collection_choices, auto_skip), CardPlaces(player), income_choices)

apply_income_and_advance(g) == start_action_phase([g EXCEPT !.players = [i \in PlayerIds(g) |-> income_for(g.players[i], g.income_state[1].collection_choices[i], g.income_state[1].income_choices[i], g.income_state[1].auto_skip_places_of_power[i])], !.income_state = None])

\* every player is paid when finalizing, and all are paid when the last one has
finalize_paying_at_once(g, player_id, can) == IF can.raised THEN Raised(g)
                                              ELSE IF ~can.ok THEN Ret(g, FALSE)
                                              ELSE IF all_income_finalized([g EXCEPT !.income_state[1].finalized[player_id] = TRUE]) THEN Ret(apply_income_and_advance([g EXCEPT !.income_state[1].finalized[player_id] = TRUE]), TRUE)
                                              ELSE Ret([g EXCEPT !.income_state[1].finalized[player_id] = TRUE,
                                                                 !.players[player_id] = income_for(@, g.income_state[1].collection_choices[player_id], g.income_state[1].income_choices[player_id], g.income_state[1].auto_skip_places_of_power[player_id])], TRUE)

\* player_finalizes_income once can_player_finalize has answered
finalize(g, player_id, can) == IF can.raised THEN Raised(g)
                               ELSE IF ~can.ok THEN Ret(g, FALSE)
                               ELSE IF all_income_finalized([g EXCEPT !.income_state[1].finalized[player_id] = TRUE]) THEN Ret(apply_income_and_advance([g EXCEPT !.income_state[1].finalized[player_id] = TRUE]), TRUE)
                               ELSE Ret([g EXCEPT !.income_state[1].finalized[player_id] = TRUE], TRUE)

player_finalizes_income(g, player_id) == finalize(g, player_id, can_player_finalize(g, player_id))

(***************************************************************************)
(* Victory                                                                 *)
(***************************************************************************)
VictoryPoints == 10

RECURSIVE SumSeq(_)
SumSeq(s) == IF Len(s) = 0 THEN 0 ELSE Head(s) + SumSeq(Tail(s))

\* points of the controlled cards in places that carry a name
card_points(player, places) == SumSeq([i \in DOMAIN places |-> IF CardAt(player, places[i]).card # "" THEN CardOf(CardAt(player, places[i]).card).points ELSE 0])

\* the token counts for nothing
calculate_player_points_of_cards(player) == card_points(player, CardPlaces(player))

calculate_player_points(player) == card_points(player, CardPlaces(player)) + (IF player.has_first_player_token THEN 1 ELSE 0)

\* gold counted once
calculate_player_resources_value_flat(player) == SumSeq([i \in DOMAIN ResourceType |-> player.resources[ResourceType[i]]])

calculate_player_resources_value(player) == SumSeq([i \in DOMAIN ResourceType |-> IF ResourceType[i] = "gold" THEN player.resources["gold"] * 2 ELSE player.resources[ResourceType[i]]])

SetMax(S) == CHOOSE x \in S : \A y \in S : y <= x

player_scores(g) == [i \in PlayerIds(g) |-> [points |-> calculate_player_points(g.players[i]), resource_value |-> calculate_player_resources_value(g.players[i])]]

\* check_victory once the scores are known; winner is NoPlayer for None
judge(scores) == LET max_points == SetMax({scores[i].points : i \in DOMAIN scores})
                     leaders == {i \in DOMAIN scores : scores[i].points = max_points}
                     max_resources == SetMax({scores[i].resource_value : i \in leaders})
                     resource_leaders == {i \in leaders : scores[i].resource_value = max_resources}
                     verdict(over, winner, tie, tied) == [game_over |-> over, winner |-> winner, is_tie |-> tie, tied_players |-> tied, player_scores |-> scores]
                 IN IF max_points < VictoryPoints THEN verdict(FALSE, NoPlayer, FALSE, {})
                    ELSE IF Cardinality(leaders) = 1 THEN verdict(TRUE, CHOOSE i \in leaders : TRUE, FALSE, {})
                    ELSE IF Cardinality(resource_leaders) = 1 THEN verdict(TRUE, CHOOSE i \in resource_leaders : TRUE, FALSE, {})
                    ELSE verdict(TRUE, NoPlayer, TRUE, resource_leaders)

check_victory(g) == judge(player_scores(g))

(***************************************************************************)
(* Action phase: turn order                                                *)
(***************************************************************************)
\* the end of the action phase that keeps no record of the victory
conclude_unrecorded(g, victory_result) == IF victory_result.game_over THEN [g EXCEPT !.action_state = None, !.phase = "game_over"] ELSE start_income_phase([g EXCEPT !.action_state = None])

\* end_action_phase once the verdict is known
conclude(g, victory_result) == IF victory_result.game_over THEN [g EXCEPT !.action_state = None, !.phase = "game_over", !.victory_result = Some(victory_result)] ELSE start_income_phase([g EXCEPT !.action_state = None])

end_action_phase(g) == conclude(g, check_victory([g EXCEPT !.action_state = None]))

\* the turn goes to the next seat, passed or not
advance_to_next_player_in_seat(g) == IF g.action_state = None THEN g
                                     ELSE LET n == NumPlayers(g)
                                              action == g.action_state[1]
                                          IN IF \E i \in PlayerIds(g) : ~action.passed[i] THEN [g EXCEPT !.action_state[1].current_player = (action.current_player + 1) % n]
                                             ELSE end_action_phase(g)

advance_to_next_player(g) == IF g.action_state = None THEN g
                             ELSE LET n == NumPlayers(g)
                                      action == g.action_state[1]
                                      current == action.current_player
                                      open == {i \in 1..n : LET next_player == (current + i) % n IN ~(next_player \in DOMAIN action.passed /\ action.passed[next_player])}
                                  IN IF open # {} THEN [g EXCEPT !.action_state[1].current_player = (current + (CHOOSE i \in open : \A j \in open : i <= j)) % n]
                                     ELSE end_action_phase(g)

(***************************************************************************)
(* Paying costs from the pool                                              *)
(***************************************************************************)
RECURSIVE spend_specific(_, _)
\* the specific part of can_afford_cost: ok is FALSE as soon as one resource runs short
spend_specific(available, cost) == IF Len(cost) = 0 THEN [pool |-> available, ok |-> TRUE]
                                   ELSE LET k == Head(cost)[1]
                                            amount == Head(cost)[2]
                                        IN IF k = "any" THEN spend_specific(available, Tail(cost))
                                           ELSE IF available[k] < amount THEN [pool |-> available, ok |-> FALSE]
                                           ELSE spend_specific([available EXCEPT ![k] = @ - amount], Tail(cost))

can_afford_cost_with_gold(resources, cost) == IF Len(cost) = 0 THEN TRUE
                                              ELSE LET spent == spend_specific(resources, cost)
                                                       any_cost == DictGet(cost, "any", 0)
                                                   IN spent.ok /\ (any_cost > 0 => SumSeq([i \in DOMAIN ResourceType |-> spent.pool[ResourceType[i]]]) >= any_cost)

can_afford_cost(resources, cost) == IF Len(cost) = 0 THEN TRUE
                                    ELSE LET spent == spend_specific(resources, cost)
                                             any_cost == DictGet(cost, "any", 0)
                                         IN spent.ok /\ (any_cost > 0 => SumSeq([i \in DOMAIN NonGold |-> spent.pool[NonGold[i]]]) >= any_cost)

RECURSIVE remove_specific(_, _)
\* pay_cost, specific part: remove_resource for every key other than 'any'
remove_specific(resources, cost) == IF Len(cost) = 0 THEN resources
                                    ELSE IF Head(cost)[1] = "any" THEN remove_specific(resources, Tail(cost))
                                    ELSE remove_specific(remove_resource(resources, Head(cost)[1], Head(cost)[2]).pool, Tail(cost))

RECURSIVE pay_any_chosen(_, _, _)
\* pay_cost with any_payment: gold is skipped, a key that is no resource type ends in ValueError
pay_any_chosen(resources, any_payment, total_paid) == IF Len(any_payment) = 0 THEN [pool |-> resources, total_paid |-> total_paid, raised |-> FALSE]
                                                      ELSE LET k == Head(any_payment)[1]
                                                               amount == Head(any_payment)[2]
                                                           IN IF k \notin Resources THEN [pool |-> resources, total_paid |-> total_paid, raised |-> TRUE]
                                                              ELSE IF k = "gold" THEN pay_any_chosen(resources, Tail(any_payment), total_paid)
                                                              ELSE pay_any_chosen(remove_resource(resources, k, amount).pool, Tail(any_payment), total_paid + amount)

RECURSIVE pay_any_auto(_, _, _)
\* pay_cost without any_payment: red, blue, green, black in turn
pay_any_auto(resources, remaining, i) == IF i > Len(NonGold) \/ remaining = 0 THEN resources
                                         ELSE LET to_pay == Min(resources[NonGold[i]], remaining)
                                              IN pay_any_auto([resources EXCEPT ![NonGold[i]] = @ - to_pay], remaining - to_pay, i + 1)

\* pool is the player's pool afterwards, ok the returned flag
pay_cost(resources, cost, any_payment) == IF Len(cost) = 0 THEN [pool |-> resources, ok |-> TRUE, raised |-> FALSE]
                                          ELSE IF ~can_afford_cost(resources, cost) THEN [pool |-> resources, ok |-> FALSE, raised |-> FALSE]
                                          ELSE LET r1 == remove_specific(resources, cost)
                                                   any_cost == DictGet(cost, "any", 0)
                                                   chosen == pay_any_chosen(r1, any_payment, 0)
                                               IN IF any_cost <= 0 THEN [pool |-> r1, ok |-> TRUE, raised |-> FALSE]
                                                  ELSE IF Len(any_payment) > 0 THEN [pool |-> chosen.pool, ok |-> ~chosen.raised /\ chosen.total_paid = any_cost, raised |-> chosen.raised]
                                                  ELSE [pool |-> pay_any_auto(r1, any_cost, 1), ok |-> TRUE, raised |-> FALSE]

(***************************************************************************)
(* Action phase: the operations of a turn                                  *)
(***************************************************************************)
\* the players holding the token face up
FaceUpHolders(g) == {i \in PlayerIds(g) : g.players[i].has_first_player_token /\ g.players[i].first_player_token_face_up}

\* the turn check left out: any player of the game may act in the playing phase
IsTurnOfAnyPlayer(g, player_id) == g.phase = "playing" /\ g.action_state # None /\ player_id \in PlayerIds(g)

\* phase and turn checks shared by the action-phase operations
IsTurnOf(g, player_id) == g.phase = "playing" /\ g.action_state # None /\ g.action_state[1].current_player = player_id

MonumentCost == << <<"gold", 4>> >>

\* player_pass, the token: nothing moves while the token lies face down
claim_token_kept(g, player_id) == IF FaceUpHolders(g) = {} THEN g
                                  ELSE [g EXCEPT !.players[player_id] = [@ EXCEPT !.has_first_player_token = TRUE, !.first_player_token_face_up = FALSE]]

claim_token_open(g, player_id) == IF FaceUpHolders(g) = {} THEN g
                                  ELSE [g EXCEPT !.players = [i \in PlayerIds(g) |-> IF i = player_id THEN [g.players[i] EXCEPT !.has_first_player_token = TRUE]
                                                                                     ELSE IF i = first_player(g) THEN [g.players[i] EXCEPT !.has_first_player_token = FALSE] ELSE g.players[i]]]

\* player_pass, the token: a face-up token goes from its holder to the passer and is turned face down
claim_token(g, player_id) == IF FaceUpHolders(g) = {} THEN g
                             ELSE LET from == CHOOSE i \in FaceUpHolders(g) : \A j \in FaceUpHolders(g) : i <= j
                                  IN [g EXCEPT !.players = [i \in PlayerIds(g) |-> IF i = player_id THEN [g.players[i] EXCEPT !.has_first_player_token = TRUE, !.first_player_token_face_up = FALSE]
                                                                                   ELSE IF i = from THEN [g.players[i] EXCEPT !.has_first_player_token = FALSE] ELSE g.players[i]]]

swap_magic_item_lost(g, player_id, new_item) == [g EXCEPT !.available_magic_items = ListRemove(@, new_item),
                                                          !.players[player_id].magic_item = ControlledCard(new_item),
                                                          !.action_state[1].passed[player_id] = TRUE]

\* player_pass, the item: the old item goes to the end of the pool, the new one leaves it
swap_magic_item(g, player_id, new_item) == [g EXCEPT !.available_magic_items = ListRemove(Append(@, g.players[player_id].magic_item.card), new_item),
                                                     !.players[player_id].magic_item = ControlledCard(new_item),
                                                     !.action_state[1].passed[player_id] = TRUE]

\* the token moves before the named item is looked up, so a pass naming an item that is not in the pool fails with the token moved
player_pass(g, player_id, new_magic_item_name) == IF ~IsTurnOf(g, player_id) THEN Ret(g, FALSE)
                                                  ELSE IF g.action_state[1].passed[player_id] THEN Ret(g, FALSE)
                                                  ELSE IF Len(g.available_magic_items) = 0 THEN Ret(g, FALSE)
                                                  ELSE LET g1 == claim_token(g, player_id)
                                                           named == new_magic_item_name # ""
                                                       IN IF named /\ ~Contains(g1.available_magic_items, new_magic_item_name) THEN Ret(g1, FALSE)
                                                          ELSE Ret(advance_to_next_player(swap_magic_item(g1, player_id, IF named THEN new_magic_item_name ELSE g1.available_magic_items[1])), TRUE)

RECURSIVE passive_reduction(_, _)
\* the amounts of the cost_reduction passives whose filter the card passes
passive_reduction(passives, tags) == IF Len(passives) = 0 THEN 0
                                     ELSE (IF Head(passives).effect_type = "cost_reduction" /\ (Head(passives).card_filter = "" \/ Head(passives).card_filter \in tags) THEN Head(passives).amount ELSE 0) + passive_reduction(Tail(passives), tags)

\* the reductions the cards in places grant a card with the given tags
reduction_for(player, places, tags) == SumSeq([i \in DOMAIN places |-> passive_reduction(CardOf(CardAt(player, places[i]).card).effects.passives, tags)])

\* a reduction granted to every card, whatever its tags
get_passive_cost_reduction_for_all(player, card_to_play) == reduction_for(player, CardPlaces(player), {"dragon", "demon"})

get_passive_cost_reduction(player, card_to_play) == reduction_for(player, CardPlaces(player), CardOf(card_to_play).tags)

RECURSIVE reduce_specific(_, _, _)
\* player_play_card: what is left of the reduction comes off red, blue, green, black in turn
reduce_specific(cost, remaining_reduction, i) == IF i > Len(NonGold) \/ remaining_reduction <= 0 THEN cost
                                                 ELSE LET res == NonGold[i]
                                                          reduce_by == Min(DictGet(cost, res, 0), remaining_reduction)
                                                      IN IF DictHas(cost, res) /\ DictGet(cost, res, 0) > 0
                                                         THEN reduce_specific(IF DictGet(cost, res, 0) = reduce_by THEN DictDel(cost, res) ELSE DictPut(cost, res, DictGet(cost, res, 0) - reduce_by), remaining_reduction - reduce_by, i + 1)
                                                         ELSE reduce_specific(cost, remaining_reduction, i + 1)

\* player_play_card: the cost after the passive reductions, 'any' first
reduced_cost(cost, reduction) == IF Len(cost) = 0 \/ reduction <= 0 THEN cost
                                 ELSE LET any == DictGet(cost, "any", 0)
                                          reduce_by == Min(any, reduction)
                                          c1 == IF any > 0 THEN (IF any = reduce_by THEN DictDel(cost, "any") ELSE DictPut(cost, "any", any - reduce_by)) ELSE cost
                                      IN reduce_specific(c1, IF any > 0 THEN reduction - reduce_by ELSE reduction, 1)

\* the cost dict of a card: effects.cost, empty when the card has no effects or no cost
cost_of(effects) == IF effects.present THEN effects.cost ELSE <<>>

\* player_play_card once the reduced cost is known; paid is what pay_cost did with it
play_at_cost(g, player_id, card_name, cost, paid) == IF ~Contains(g.players[player_id].hand, card_name) THEN Ret(g, FALSE)
                                                     ELSE IF Len(cost) > 0 /\ ~can_afford_cost(g.players[player_id].resources, cost) THEN Ret(g, FALSE)
                                                     ELSE IF paid.raised THEN Raised([g EXCEPT !.players[player_id].resources = paid.pool])
                                                     ELSE Ret(advance_to_next_player([g EXCEPT !.players[player_id] = [@ EXCEPT !.resources = paid.pool, !.hand = ListRemove(@, card_name), !.artifacts = Append(@, ControlledCard(card_name))]]), TRUE)

play_priced(g, player_id, card_name, any_payment, cost) == play_at_cost(g, player_id, card_name, cost, pay_cost(g.players[player_id].resources, cost, any_payment))

\* the flag of pay_cost is not looked at: the card is played whatever pay_cost took
player_play_card(g, player_id, card_name, any_payment) == IF ~IsTurnOf(g, player_id) THEN Ret(g, FALSE)
                                                          ELSE play_priced(g, player_id, card_name, any_payment, reduced_cost(cost_of(CardOf(card_name).effects), get_passive_cost_reduction(g.players[player_id], card_name)))

\* player_buy_place_of_power once the cost is known
buy_at_cost(g, player_id, pop_name, cost) == IF ~Contains(g.available_places_of_power, pop_name) THEN Ret(g, FALSE)
                                             ELSE IF Len(cost) > 0 /\ ~can_afford_cost(g.players[player_id].resources, cost) THEN Ret(g, FALSE)
                                             ELSE Ret(advance_to_next_player([g EXCEPT !.available_places_of_power = ListRemove(@, pop_name),
                                                                                        !.players[player_id] = [@ EXCEPT !.resources = pay_cost(@, cost, <<>>).pool, !.places_of_power = Append(@, ControlledCard(pop_name))]]), TRUE)

player_buy_place_of_power(g, player_id, pop_name) == IF ~IsTurnOf(g, player_id) THEN Ret(g, FALSE) ELSE buy_at_cost(g, player_id, pop_name, cost_of(CardOf(pop_name).effects))

player_buy_monument(g, player_id, monument_name, from_deck) == IF ~IsTurnOf(g, player_id) THEN Ret(g, FALSE)
                                                               ELSE LET player == g.players[player_id]
                                                                        monument == IF from_deck THEN g.monument_deck[1] ELSE monument_name
                                                                        g1 == IF from_deck THEN [g EXCEPT !.monument_deck = Tail(@)]
                                                                              ELSE IF Len(g.monument_deck) > 0 THEN [g EXCEPT !.available_monuments = Append(ListRemove(@, monument_name), g.monument_deck[1]), !.monument_deck = Tail(@)]
                                                                              ELSE [g EXCEPT !.available_monuments = ListRemove(@, monument_name)]
                                                                    IN IF ~can_afford_cost(player.resources, MonumentCost) THEN Ret(g, FALSE)
                                                                       ELSE IF from_deck /\ Len(g.monument_deck) = 0 THEN Ret(g, FALSE)
                                                                       ELSE IF ~from_deck /\ ~Contains(g.available_monuments, monument_name) THEN Ret(g, FALSE)
                                                                       ELSE Ret(advance_to_next_player([g1 EXCEPT !.players[player_id] = [player EXCEPT !.resources = pay_cost(@, MonumentCost, <<>>).pool, !.monuments = Append(@, ControlledCard(monument))]]), TRUE)

\* gain_resources must total 2 and name only red, blue, green or black
player_discard_card(g, player_id, card_name, gain_gold, gain_resources) == IF ~IsTurnOf(g, player_id) THEN Ret(g, FALSE)
                                                                           ELSE LET player == g.players[player_id]
                                                                                    chosen == Len(gain_resources) > 0
                                                                                IN IF gain_gold /\ chosen THEN Ret(g, FALSE)
                                                                                   ELSE IF ~gain_gold /\ ~chosen THEN Ret(g, FALSE)
                                                                                   ELSE IF ~Contains(player.hand, card_name) THEN Ret(g, FALSE)
                                                                                   ELSE IF chosen /\ DictSum(gain_resources) # 2 THEN Ret(g, FALSE)
                                                                                   ELSE IF chosen /\ \E i \in DOMAIN gain_resources : ~Contains(NonGold, gain_resources[i][1]) THEN Ret(g, FALSE)
                                                                                   ELSE Ret(advance_to_next_player([g EXCEPT !.players[player_id] = [player EXCEPT !.hand = ListRemove(@, card_name), !.discard = Append(@, card_name),
                                                                                                                                                                     !.resources = IF gain_gold THEN add_resource(@, "gold", 1) ELSE add_all(@, gain_resources)]]), TRUE)

(***************************************************************************)
(* Ability system: costs                                                   *)
(***************************************************************************)
\* cost_choices of use_ability: an absent name is "", an absent dict is empty
NoCostChoices == [tap_card |-> "", destroy_artifact |-> "", discard |-> "", any_payment |-> <<>>, variable_payment |-> <<>>]

\* effect_choices of use_ability; bonus_resource is 'red' unless given
NoEffectChoices == [resource_choices |-> <<>>, untap_target |-> "", attack_responses |-> <<>>, play_card |-> "", add_to_card_target |-> "", take_from_card_target |-> "", destroyed_card_cost |-> <<>>, bonus_resource |-> "red", discarded_card_cost |-> <<>>]

Controls(player, card_name) == find_controlled_card(player, card_name) # None

\* the controlled card find_controlled_card returns
CardNamed(player, card_name) == CardAt(player, find_controlled_card(player, card_name)[1])

\* an assignment to a field of the card find_controlled_card returns
SetCardNamed(player, card_name, cc) == IF Controls(player, card_name) THEN SetCardAt(player, find_controlled_card(player, card_name)[1], cc) ELSE player

\* the run of an ability: the game, the source card (by name while the player controls it, by value once it is
\* destroyed), what was paid, and how the run stands
Run(g, player_id, card_name) == [g |-> g, player_id |-> player_id, card_name |-> card_name, attached |-> TRUE, detached |-> ControlledCard(card_name), paid |-> [variable_type |-> "", variable_amount |-> 0], ok |-> TRUE, raised |-> FALSE]

Actor(run) == run.g.players[run.player_id]

\* source_card as the code holds it
Source(run) == IF run.attached THEN CardNamed(Actor(run), run.card_name) ELSE run.detached

\* an assignment to a field of source_card: it shows in the game while the card is controlled
SetSource(run, cc) == IF run.attached THEN [run EXCEPT !.g.players[run.player_id] = SetCardNamed(@, run.card_name, cc)] ELSE [run EXCEPT !.detached = cc]

Failed(run) == [run EXCEPT !.ok = FALSE]

\* can_pay_ability_costs, the tap_card branch: tags[i] are the tags of the i-th controlled card
has_valid_tap_target(cards, tags, source_name, tag) == \E i \in DOMAIN cards : cards[i].card # source_name /\ ~cards[i].tapped /\ (tag = "" \/ tag \in tags[i])

TagsOfAll(cards) == [i \in DOMAIN cards |-> CardOf(cards[i].card).tags]

\* can_pay_ability_costs for one cost; source_type is the card type of the source card
can_pay_one(player, source, source_type, cost) == CASE cost.cost_type = "tap" -> ~source.tapped
                                                    [] cost.cost_type = "tap_card" -> has_valid_tap_target(all_controlled_cards(player), TagsOfAll(all_controlled_cards(player)), source.card, cost.tag)
                                                    [] cost.cost_type = "pay" -> Len(cost.resources) = 0 \/ can_afford_cost(player.resources, cost.resources)
                                                    [] cost.cost_type = "pay_variable" -> \E i \in DOMAIN (IF Len(cost.types) > 0 THEN cost.types ELSE NonGold) : player.resources[(IF Len(cost.types) > 0 THEN cost.types ELSE NonGold)[i]] >= (IF cost.min_amount # 0 THEN cost.min_amount ELSE 1)
                                                    [] cost.cost_type = "remove_from_card" -> \A i \in DOMAIN cost.resources : source.resources[cost.resources[i][1]] >= cost.resources[i][2]
                                                    [] cost.cost_type = "destroy_artifact" -> IF cost.must_be_different THEN \E i \in DOMAIN player.artifacts : player.artifacts[i].card # source.card
                                                                                              ELSE ~(source_type # "artifact" /\ Len(player.artifacts) = 0)
                                                    [] cost.cost_type = "discard" -> Len(player.hand) > 0
                                                    [] OTHER -> TRUE

can_pay_ability_costs(player, source, source_type, costs) == \A i \in DOMAIN costs : can_pay_one(player, source, source_type, costs[i])

\* _destroy_card: an artifact goes to the discard pile, a monument or a place of power leaves the game, a mage or a magic item stays
destroy_card(player, card_name) == LET place == find_controlled_card(player, card_name)[1]
                                       without(cards) == SubSeq(cards, 1, place.idx - 1) \o SubSeq(cards, place.idx + 1, Len(cards))
                                   IN CASE place.zone = "artifacts" -> [player EXCEPT !.artifacts = without(@), !.discard = Append(@, card_name)]
                                        [] place.zone = "monuments" -> [player EXCEPT !.monuments = without(@)]
                                        [] place.zone = "places_of_power" -> [player EXCEPT !.places_of_power = without(@)]
                                        [] OTHER -> player

\* whether _destroy_card takes the card away from the player
Destroyable(player, card_name) == Controls(player, card_name) /\ find_controlled_card(player, card_name)[1].zone \in {"artifacts", "monuments", "places_of_power"}

\* pay_ability_costs, destroy_self
pay_destroy_self(run) == IF run.attached /\ Destroyable(Actor(run), run.card_name)
                         THEN [run EXCEPT !.detached = Source(run), !.attached = FALSE, !.g.players[run.player_id] = destroy_card(@, run.card_name)]
                         ELSE run

\* pay_ability_costs, tap_card: target_tags are the tags of the card the choice names
pay_tap_card(run, cost, target_name, target_tags) == IF target_name = "" THEN Failed(run)
                                                     ELSE IF ~Controls(Actor(run), target_name) THEN Failed(run)
                                                     ELSE IF CardNamed(Actor(run), target_name).tapped THEN Failed(run)
                                                     ELSE IF cost.tag = "" \/ cost.tag \in target_tags THEN [run EXCEPT !.g.players[run.player_id] = SetCardNamed(@, target_name, [CardNamed(@, target_name) EXCEPT !.tapped = TRUE])]
                                                     ELSE Failed(run)

\* pay_ability_costs, pay: what pay_cost took stays taken when it reports failure
pay_resources(run, cost, paid) == IF Len(cost.resources) = 0 THEN run
                                  ELSE [run EXCEPT !.g.players[run.player_id].resources = paid.pool, !.ok = paid.ok, !.raised = paid.raised]

RECURSIVE pay_variable_amounts(_, _)
\* pay_ability_costs, pay_variable: the amounts are removed one type after the other until one runs short
pay_variable_amounts(run, payment) == IF Len(payment) = 0 THEN run
                                      ELSE IF Actor(run).resources[Head(payment)[1]] < Head(payment)[2] THEN Failed(run)
                                      ELSE pay_variable_amounts([run EXCEPT !.g.players[run.player_id].resources[Head(payment)[1]] = @ - Head(payment)[2]], Tail(payment))

pay_variable(run, cost, variable_payment) == LET allowed_types == IF Len(cost.types) > 0 THEN cost.types ELSE NonGold
                                                 min_amount == IF cost.min_amount # 0 THEN cost.min_amount ELSE 1
                                                 paying == pay_variable_amounts(run, variable_payment)
                                             IN IF Len(variable_payment) = 0 THEN Failed(run)
                                                ELSE IF cost.same_type /\ Len(variable_payment) > 1 THEN Failed(run)
                                                ELSE IF \E i \in DOMAIN variable_payment : ~Contains(allowed_types, variable_payment[i][1]) THEN Failed(run)
                                                ELSE IF DictSum(variable_payment) < min_amount THEN Failed(run)
                                                ELSE IF ~paying.ok THEN paying
                                                ELSE [paying EXCEPT !.paid = [variable_type |-> IF Len(variable_payment) = 1 THEN variable_payment[1][1] ELSE "", variable_amount |-> DictSum(variable_payment)]]

RECURSIVE pay_remove_from_card(_, _)
\* pay_ability_costs, remove_from_card: source_card.remove_resource for every entry until one fails
pay_remove_from_card(run, resources) == IF Len(resources) = 0 THEN run
                                        ELSE IF ~remove_resource(Source(run).resources, Head(resources)[1], Head(resources)[2]).ok THEN Failed(run)
                                        ELSE pay_remove_from_card(SetSource(run, [Source(run) EXCEPT !.resources = remove_resource(@, Head(resources)[1], Head(resources)[2]).pool]), Tail(resources))

\* pay_ability_costs, destroy_artifact: target_type is the card type of the card the choice names
pay_destroy_artifact(run, cost, target_name, target_type) == IF target_name = "" THEN Failed(run)
                                                             ELSE IF ~(Controls(Actor(run), target_name) /\ target_type = "artifact") THEN Failed(run)
                                                             ELSE IF cost.must_be_different /\ run.attached /\ target_name = run.card_name THEN Failed(run)
                                                             ELSE IF run.attached /\ target_name = run.card_name THEN pay_destroy_self(run)
                                                             ELSE [run EXCEPT !.g.players[run.player_id] = destroy_card(@, target_name)]

\* pay_ability_costs, discard
pay_discard(run, card_name) == IF card_name = "" THEN Failed(run)
                               ELSE IF ~Contains(Actor(run).hand, card_name) THEN Failed(run)
                               ELSE [run EXCEPT !.g.players[run.player_id] = [@ EXCEPT !.hand = ListRemove(@, card_name), !.discard = Append(@, card_name)]]

\* pay_ability_costs for one cost; chosen_tap and chosen_destroy are the catalog cards the choices name
pay_one(run, cost, cost_choices, chosen_tap, chosen_destroy) == CASE cost.cost_type = "tap" -> SetSource(run, [Source(run) EXCEPT !.tapped = TRUE])
                                                                  [] cost.cost_type = "tap_card" -> pay_tap_card(run, cost, cost_choices.tap_card, chosen_tap.tags)
                                                                  [] cost.cost_type = "pay" -> pay_resources(run, cost, pay_cost(Actor(run).resources, cost.resources, cost_choices.any_payment))
                                                                  [] cost.cost_type = "pay_variable" -> pay_variable(run, cost, cost_choices.variable_payment)
                                                                  [] cost.cost_type = "remove_from_card" -> pay_remove_from_card(run, cost.resources)
                                                                  [] cost.cost_type = "destroy_self" -> pay_destroy_self(run)
                                                                  [] cost.cost_type = "destroy_artifact" -> pay_destroy_artifact(run, cost, cost_choices.destroy_artifact, chosen_destroy.card_type)
                                                                  [] cost.cost_type = "discard" -> pay_discard(run, cost_choices.discard)
                                                                  [] OTHER -> run

RECURSIVE pay_costs(_, _, _, _, _)
\* the loop of pay_ability_costs: it returns at the first cost that fails, with the earlier costs paid
pay_costs(run, costs, cost_choices, chosen_tap, chosen_destroy) == IF Len(costs) = 0 \/ ~run.ok THEN run
                                                                   ELSE pay_costs(pay_one(run, Head(costs), cost_choices, chosen_tap, chosen_destroy), Tail(costs), cost_choices, chosen_tap, chosen_destroy)

pay_ability_costs(run, costs, cost_choices) == pay_costs(run, costs, cost_choices, CardOf(cost_choices.tap_card), CardOf(cost_choices.destroy_artifact))

(***************************************************************************)
(* Attack system                                                           *)
(***************************************************************************)
\* the order in which calculate_attack_payment takes the penalty
PenaltyOrder == <<"red", "blue", "black", "gold">>

RECURSIVE pay_penalty(_, _, _)
\* calculate_attack_payment and apply_attack_payment, the penalty: up to `needed` units off red, blue, black, gold in turn
pay_penalty(pool, needed, i) == IF i > Len(PenaltyOrder) \/ needed <= 0 THEN pool
                                ELSE LET to_pay == Max(Min(pool[PenaltyOrder[i]], needed), 0)
                                     IN pay_penalty([pool EXCEPT ![PenaltyOrder[i]] = @ - to_pay], needed - to_pay, i + 1)

\* the penalty of one unit for each green short
attack_payment_single(pool, green_cost) == LET green_to_pay == Min(pool["green"], green_cost)
                                           IN pay_penalty([pool EXCEPT !["green"] = @ - Max(green_to_pay, 0)], green_cost - green_to_pay, 1)

\* the pool after apply_attack_payment(player, calculate_attack_payment(player, green_cost))
attack_payment(pool, green_cost) == LET green_to_pay == Min(pool["green"], green_cost)
                                    IN pay_penalty([pool EXCEPT !["green"] = @ - Max(green_to_pay, 0)], (green_cost - green_to_pay) * 2, 1)

can_pay_avoid_cost(player, avoid_cost) == IF DictHas(avoid_cost, "discard") THEN Len(player.hand) > 0
                                          ELSE IF DictHas(avoid_cost, "destroy_artifact") THEN Len(player.artifacts) > 0
                                          ELSE \A i \in DOMAIN avoid_cost : avoid_cost[i][1] \in Resources => player.resources[avoid_cost[i][1]] >= avoid_cost[i][2]

RECURSIVE pay_avoid_resources(_, _)
pay_avoid_resources(pool, avoid_cost) == IF Len(avoid_cost) = 0 THEN pool
                                         ELSE IF Head(avoid_cost)[1] \notin Resources THEN pay_avoid_resources(pool, Tail(avoid_cost))
                                         ELSE IF ~remove_resource(pool, Head(avoid_cost)[1], Head(avoid_cost)[2]).ok THEN pool
                                         ELSE pay_avoid_resources(remove_resource(pool, Head(avoid_cost)[1], Head(avoid_cost)[2]).pool, Tail(avoid_cost))

\* the player after pay_avoid_cost; a named card that is not there leaves the player as it was
pay_avoid_cost(player, avoid_cost, discard_card_name, destroy_artifact_name) == IF DictHas(avoid_cost, "discard")
                                                                                THEN IF discard_card_name # "" /\ Contains(player.hand, discard_card_name) THEN [player EXCEPT !.hand = ListRemove(@, discard_card_name), !.discard = Append(@, discard_card_name)] ELSE player
                                                                                ELSE IF DictHas(avoid_cost, "destroy_artifact")
                                                                                THEN IF destroy_artifact_name # "" /\ \E i \in DOMAIN player.artifacts : player.artifacts[i].card = destroy_artifact_name
                                                                                     THEN LET k == CHOOSE i \in DOMAIN player.artifacts : player.artifacts[i].card = destroy_artifact_name /\ \A j \in 1..(i - 1) : player.artifacts[j].card # destroy_artifact_name
                                                                                          IN [player EXCEPT !.artifacts = SubSeq(@, 1, k - 1) \o SubSeq(@, k + 1, Len(@)), !.discard = Append(@, destroy_artifact_name)]
                                                                                     ELSE player
                                                                                ELSE [player EXCEPT !.resources = pay_avoid_resources(@, avoid_cost)]

\* _apply_attack_effect for one opponent
attack_opponent(opponent, effect, answer) == CASE answer.response = "pay" -> [opponent EXCEPT !.resources = attack_payment(@, effect.green_cost)]
                                               [] answer.response = "avoid" /\ Len(effect.avoid_cost) > 0 -> IF can_pay_avoid_cost(opponent, effect.avoid_cost) THEN pay_avoid_cost(opponent, effect.avoid_cost, answer.discard, answer.destroy_artifact)
                                                                                                             ELSE [opponent EXCEPT !.resources = attack_payment(@, effect.green_cost)]
                                               [] OTHER -> opponent

\* _apply_attack_effect: every player but the attacker answers; an opponent without an entry pays
apply_attack_effect(g, attacker_id, effect, responses) == [g EXCEPT !.players = [i \in PlayerIds(g) |-> IF i = attacker_id THEN g.players[i] ELSE attack_opponent(g.players[i], effect, DictGet(responses, i, [response |-> "pay", discard |-> "", destroy_artifact |-> ""]))]]

(***************************************************************************)
(* Ability system: effects                                                 *)
(***************************************************************************)
RECURSIVE add_allowed(_, _, _)
\* for res_str, amount in chosen.items(): if res_str in allowed_types: add
add_allowed(pool, chosen, allowed_types) == IF Len(chosen) = 0 THEN pool
                                            ELSE add_allowed(IF Contains(allowed_types, Head(chosen)[1]) THEN add_resource(pool, Head(chosen)[1], Head(chosen)[2]) ELSE pool, Tail(chosen), allowed_types)

\* the choice a gain or add_to_card effect with count and types goes by: the caller's when it totals count, count of the first type otherwise
chosen_or_default(effect, resource_choices) == IF DictSum(resource_choices) # effect.count THEN << <<effect.types[1], effect.count>> >> ELSE resource_choices

\* gain with amount_from_paid: the choice, replaced by the first allowed type when its total or one of its types is wrong
chosen_from_paid(effect, resource_choices, paid) == LET all_types == IF Len(effect.types) > 0 THEN effect.types ELSE NonGold
                                                        allowed_types == IF effect.different_from_paid /\ paid.variable_type # "" THEN ListRemove(all_types, paid.variable_type) ELSE all_types
                                                        default == IF Len(allowed_types) > 0 THEN << <<allowed_types[1], paid.variable_amount>> >> ELSE <<>>
                                                    IN IF DictSum(resource_choices) # paid.variable_amount THEN default
                                                       ELSE IF \E i \in DOMAIN resource_choices : ~Contains(allowed_types, resource_choices[i][1]) THEN default
                                                       ELSE resource_choices

\* rt.value of a key of the catalog: cards.py writes resource types as str, which has no attribute value, so that any key ends in AttributeError
value_raises(keys) == Len(keys) > 0

\* apply_ability_effects, gain: fixed resources are added and then reported by rt.value; allowed_types is built of rt.value before the choice is looked at
effect_gain(run, effect, resource_choices) == IF Len(effect.resources) > 0 THEN [run EXCEPT !.g.players[run.player_id].resources = add_all(@, effect.resources), !.raised = value_raises(effect.resources)]
                                              ELSE IF effect.count # 0 /\ Len(effect.types) > 0 THEN IF value_raises(effect.types) THEN [run EXCEPT !.raised = TRUE]
                                                                                                     ELSE [run EXCEPT !.g.players[run.player_id].resources = add_allowed(@, chosen_or_default(effect, resource_choices), effect.types)]
                                              ELSE IF effect.amount_from_paid /\ run.paid.variable_amount # 0 THEN IF value_raises(effect.types) THEN [run EXCEPT !.raised = TRUE]
                                                                                                                   ELSE [run EXCEPT !.g.players[run.player_id].resources = add_all(@, chosen_from_paid(effect, resource_choices, run.paid))]
                                              ELSE run

\* apply_ability_effects, add_to_card: the store of the target after the effect; a choice is not reached when allowed_types cannot be built
effect_store(store, effect, resource_choices) == IF Len(effect.resources) > 0 THEN add_all(store, effect.resources)
                                                 ELSE IF effect.count # 0 /\ Len(effect.types) > 0 /\ ~value_raises(effect.types) THEN add_allowed(store, chosen_or_default(effect, resource_choices), effect.types)
                                                 ELSE store

\* apply_ability_effects, add_to_card: 'added' is built of rt.value after the fixed resources are on the card, allowed_types before a choice is
store_raises(effect) == IF Len(effect.resources) > 0 THEN value_raises(effect.resources) ELSE effect.count # 0 /\ Len(effect.types) > 0 /\ value_raises(effect.types)

\* apply_ability_effects, add_to_card: the target is the source card unless the effect says 'other' and the choice names a controlled card
effect_add_to_card(run, effect, effect_choices) == IF effect.target = "other" /\ effect_choices.add_to_card_target # "" /\ Controls(Actor(run), effect_choices.add_to_card_target)
                                                   THEN [run EXCEPT !.g.players[run.player_id] = SetCardNamed(@, effect_choices.add_to_card_target, [CardNamed(@, effect_choices.add_to_card_target) EXCEPT !.resources = effect_store(@, effect, effect_choices.resource_choices)]), !.raised = store_raises(effect)]
                                                   ELSE [SetSource(run, [Source(run) EXCEPT !.resources = effect_store(@, effect, effect_choices.resource_choices)]) EXCEPT !.raised = store_raises(effect)]

\* apply_ability_effects, take_from_card: the store is written by add_to_card only, with the str keys of the catalog, so that the first
\* count above 0 reaches the pool and then rt.value ends the call, the store still on the card; a store of nothing is emptied.
\* The store is gone through in the order of ResourceType
effect_take_from_card(run, target_name) == LET store == CardNamed(Actor(run), target_name).resources
                                               held == SelectSeq(ResourceType, LAMBDA r : store[r] > 0)
                                           IN IF target_name = "" \/ ~Controls(Actor(run), target_name) THEN run
                                              ELSE IF Len(held) > 0 THEN [run EXCEPT !.g.players[run.player_id].resources = add_resource(@, held[1], store[held[1]]), !.raised = TRUE]
                                              ELSE [run EXCEPT !.g.players[run.player_id] = SetCardNamed(@, target_name, [CardNamed(@, target_name) EXCEPT !.resources = NoRes])]

RECURSIVE effect_draw(_, _)
\* apply_ability_effects, draw and draw_discard: the top of the deck goes to the hand while there is a deck
effect_draw(player, count) == IF count = 0 \/ Len(player.deck) = 0 THEN player
                              ELSE effect_draw([player EXCEPT !.hand = Append(@, Head(player.deck)), !.deck = Tail(@)], count - 1)

\* apply_ability_effects, untap: target_tags are the tags of the card the choice names
effect_untap(run, effect, target_name, target_tags) == IF effect.target = "self" THEN SetSource(run, [Source(run) EXCEPT !.tapped = FALSE])
                                                       ELSE IF target_name = "" \/ ~Controls(Actor(run), target_name) THEN run
                                                       ELSE IF effect.target \in {"dragon", "demon"} /\ effect.target \notin target_tags THEN run
                                                       ELSE [run EXCEPT !.g.players[run.player_id] = SetCardNamed(@, target_name, [CardNamed(@, target_name) EXCEPT !.tapped = FALSE])]

\* apply_ability_effects, convert: red, blue, green and black become gold
effect_convert(pool) == [r \in Resources |-> IF r = "gold" THEN pool["gold"] + SumSeq([i \in DOMAIN NonGold |-> IF pool[NonGold[i]] > 0 THEN pool[NonGold[i]] ELSE 0]) ELSE IF pool[r] > 0 THEN 0 ELSE pool[r]]

\* apply_ability_effects, play_card: card_tags are the tags of the card the choice names
effect_play_card(player, effect, card_name, card_tags) == LET from_hand == effect.source = "hand"
                                                              source_list == IF from_hand THEN player.hand ELSE player.discard
                                                          IN IF card_name = "" \/ ~Contains(source_list, card_name) THEN player
                                                             ELSE IF effect.card_filter # "" /\ effect.card_filter \notin card_tags THEN player
                                                             ELSE IF from_hand THEN [player EXCEPT !.hand = ListRemove(@, card_name), !.artifacts = Append(@, ControlledCard(card_name))]
                                                             ELSE [player EXCEPT !.discard = ListRemove(@, card_name), !.artifacts = Append(@, ControlledCard(card_name))]

RECURSIVE gain_cost(_, _)
\* gain_from_destroyed and gain_from_discarded: ResourceType(res_str) ends in ValueError for a key that is no resource type
gain_cost(run, card_cost) == IF Len(card_cost) = 0 THEN run
                             ELSE IF Head(card_cost)[1] \notin Resources THEN [run EXCEPT !.raised = TRUE]
                             ELSE gain_cost([run EXCEPT !.g.players[run.player_id].resources = add_resource(@, Head(card_cost)[1], Head(card_cost)[2])], Tail(card_cost))

\* apply_ability_effects, gain_from_destroyed: the cost handed in, then the bonus
effect_gain_from_destroyed(run, effect, effect_choices) == LET gained == gain_cost(run, effect_choices.destroyed_card_cost)
                                                           IN IF gained.raised \/ effect.bonus = 0 THEN gained
                                                              ELSE gain_cost(gained, << <<effect_choices.bonus_resource, effect.bonus>> >>)

\* apply_ability_effects, give_opponents
effect_give_opponents(g, player_id, effect) == [g EXCEPT !.players = [i \in PlayerIds(g) |-> IF i = player_id THEN g.players[i] ELSE [g.players[i] EXCEPT !.resources = add_all(@, effect.resources)]]]

RECURSIVE add_times(_, _, _)
\* add_resource(rt, max_count * amount) for every entry
add_times(pool, resources, max_count) == IF Len(resources) = 0 THEN pool
                                         ELSE add_times(add_resource(pool, Head(resources)[1], max_count * Head(resources)[2]), Tail(resources), max_count)

\* apply_ability_effects, gain_per_opponent: the largest count of check_resource among the opponents
effect_gain_per_opponent(g, player_id, effect) == LET max_count == SetMax({0} \cup {g.players[i].resources[effect.check_resource] : i \in {j \in PlayerIds(g) : j # player_id /\ effect.check_resource # ""}})
                                                  IN IF max_count > 0 /\ Len(effect.resources) > 0 THEN [g EXCEPT !.players[player_id].resources = add_times(@, effect.resources, max_count)] ELSE g

\* apply_ability_effects, gain_per_opponent_count: the largest number of cards with check_tag among the opponents
effect_gain_per_opponent_count(g, player_id, effect) == LET max_count == SetMax({0} \cup {Cardinality({k \in DOMAIN all_controlled_cards(g.players[i]) : effect.check_tag \in CardOf(all_controlled_cards(g.players[i])[k].card).tags}) : i \in {j \in PlayerIds(g) : j # player_id /\ effect.check_tag # ""}})
                                                        IN IF max_count > 0 /\ Len(effect.resources) > 0 THEN [g EXCEPT !.players[player_id].resources = add_times(@, effect.resources, max_count)] ELSE g

\* apply_ability_effects for one effect; chosen_untap and chosen_play are the catalog cards the choices name
apply_one(run, effect, effect_choices, chosen_untap, chosen_play) == CASE effect.effect_type = "gain" -> effect_gain(run, effect, effect_choices.resource_choices)
                                                                       [] effect.effect_type = "add_to_card" -> effect_add_to_card(run, effect, effect_choices)
                                                                       [] effect.effect_type = "take_from_card" -> effect_take_from_card(run, effect_choices.take_from_card_target)
                                                                       [] effect.effect_type = "attack" -> [run EXCEPT !.g = apply_attack_effect(@, run.player_id, effect, effect_choices.attack_responses)]
                                                                       [] effect.effect_type \in {"draw", "draw_discard"} -> [run EXCEPT !.g.players[run.player_id] = effect_draw(@, IF effect.count # 0 THEN effect.count ELSE 1)]
                                                                       [] effect.effect_type = "untap" -> effect_untap(run, effect, effect_choices.untap_target, chosen_untap.tags)
                                                                       [] effect.effect_type = "convert" -> [run EXCEPT !.g.players[run.player_id].resources = effect_convert(@)]
                                                                       [] effect.effect_type = "play_card" -> [run EXCEPT !.g.players[run.player_id] = effect_play_card(@, effect, effect_choices.play_card, chosen_play.tags)]
                                                                       [] effect.effect_type = "gain_from_destroyed" -> effect_gain_from_destroyed(run, effect, effect_choices)
                                                                       [] effect.effect_type = "gain_from_discarded" -> gain_cost(run, effect_choices.discarded_card_cost)
                                                                       [] effect.effect_type = "give_opponents" -> IF Len(effect.resources) > 0 THEN [run EXCEPT !.g = effect_give_opponents(@, run.player_id, effect), !.raised = value_raises(effect.resources)] ELSE run
                                                                       [] effect.effect_type = "gain_per_opponent" -> [run EXCEPT !.g = effect_gain_per_opponent(@, run.player_id, effect)]
                                                                       [] effect.effect_type = "gain_per_opponent_count" -> [run EXCEPT !.g = effect_gain_per_opponent_count(@, run.player_id, effect)]
                                                                       [] OTHER -> run

RECURSIVE apply_effects(_, _, _, _, _)
\* the loop of apply_ability_effects; a raised error ends it
apply_effects(run, effects, effect_choices, chosen_untap, chosen_play) == IF Len(effects) = 0 \/ run.raised THEN run
                                                                          ELSE apply_effects(apply_one(run, Head(effects), effect_choices, chosen_untap, chosen_play), Tail(effects), effect_choices, chosen_untap, chosen_play)

apply_ability_effects(run, effects, effect_choices) == apply_effects(run, effects, effect_choices, CardOf(effect_choices.untap_target), CardOf(effect_choices.play_card))

(***************************************************************************)
(* use_ability                                                             *)
(***************************************************************************)
\* use_ability after the effects: the turn moves on
finish(done) == IF done.raised THEN Raised(done.g) ELSE Ret(advance_to_next_player(done.g), TRUE)

\* use_ability after the payment: a payment that failed ends the call with what was paid so far gone
after_payment(paid, ability, effect_choices) == IF paid.raised THEN Raised(paid.g)
                                                ELSE IF ~paid.ok THEN Ret(paid.g, FALSE)
                                                ELSE finish(apply_ability_effects(paid, ability.effects, effect_choices))

\* use_ability that lets an ability with a trigger be used as an action
use_card_reacting(g, player_id, card_name, ability_index, cost_choices, effect_choices, source) == LET cc == CardNamed(g.players[player_id], card_name)
                                                                                                       abilities == source.effects.abilities
                                                                                                   IN IF cc.tapped THEN Ret(g, FALSE)
                                                                                                      ELSE IF ~source.effects.present \/ Len(abilities) = 0 THEN Ret(g, FALSE)
                                                                                                      ELSE IF ability_index < 0 \/ ability_index >= Len(abilities) THEN Ret(g, FALSE)
                                                                                                      ELSE IF ~can_pay_ability_costs(g.players[player_id], cc, source.card_type, abilities[ability_index + 1].costs) THEN Ret(g, FALSE)
                                                                                                      ELSE after_payment(pay_ability_costs(Run(g, player_id, card_name), abilities[ability_index + 1].costs, cost_choices), abilities[ability_index + 1], effect_choices)

\* use_ability once the source card is found: source is the catalog card of that name
use_card(g, player_id, card_name, ability_index, cost_choices, effect_choices, source) == LET cc == CardNamed(g.players[player_id], card_name)
                                                                                              abilities == source.effects.abilities
                                                                                          IN IF cc.tapped THEN Ret(g, FALSE)
                                                                                             ELSE IF ~source.effects.present \/ Len(abilities) = 0 THEN Ret(g, FALSE)
                                                                                             ELSE IF ability_index < 0 \/ ability_index >= Len(abilities) THEN Ret(g, FALSE)
                                                                                             ELSE IF abilities[ability_index + 1].trigger # "" THEN Ret(g, FALSE)
                                                                                             ELSE IF ~can_pay_ability_costs(g.players[player_id], cc, source.card_type, abilities[ability_index + 1].costs) THEN Ret(g, FALSE)
                                                                                             ELSE after_payment(pay_ability_costs(Run(g, player_id, card_name), abilities[ability_index + 1].costs, cost_choices), abilities[ability_index + 1], effect_choices)

use_ability(g, player_id, card_name, ability_index, cost_choices, effect_choices) == IF ~IsTurnOf(g, player_id) THEN Ret(g, FALSE)
                                                                                     ELSE IF player_id \notin PlayerIds(g) THEN Ret(g, FALSE)
                                                                                     ELSE IF ~Controls(g.players[player_id], card_name) THEN Ret(g, FALSE)
                                                                                     ELSE use_card(g, player_id, card_name, ability_index, cost_choices, effect_choices, CardOf(card_name))

(***************************************************************************)
(* The state machine: one action per operation, with the follow-up steps   *)
(* its callers in server.py run after it                                   *)
(***************************************************************************)
\* the history after a step from game g to game g2
HistAfter(h, g, g2, op, pid, ok) == LET dealt == g2.draft_state # None /\ g2.phase # g.phase /\ g2.phase \in {"drafting_round_1", "drafting_round_2"}
                                        passed_on == ~dealt /\ g2.draft_state # None /\ g.draft_state # None /\ op = "player_picks_card" /\ ok /\ \A i \in PlayerIds(g2) : Len(g2.draft_state[1].cards_to_pick[i]) > 0
                                    IN [h EXCEPT !.batch = IF dealt THEN g2.draft_state[1].cards_to_pick ELSE @,
                                                 !.seen = IF dealt THEN [i \in PlayerIds(g2) |-> <<i>>] ELSE IF passed_on THEN [i \in PlayerIds(g2) |-> Append(h.seen[i], (CHOOSE j \in DOMAIN h.batch : Contains(h.batch[j], g2.draft_state[1].cards_to_pick[i][1])))] ELSE @,
                                                 !.seen_round_1 = IF dealt /\ g2.phase = "drafting_round_2" THEN h.seen ELSE @,
                                                 !.first = IF g2.phase = "magic_item_selection" /\ g.phase = "mage_selection" THEN first_player(g2) ELSE @,
                                                 !.takes = IF op = "player_takes_magic_item" /\ ok THEN Append(@, pid) ELSE @,
                                                 !.round = IF g2.phase = "income" /\ g.phase # "income" THEN @ + 1 ELSE @]

\* a step of the machine: the operation's outcome becomes the state; arg is the name handed to it
Apply(op, pid, arg, r) == /\ game' = r.g
                          /\ last' = [op |-> op, pid |-> pid, arg |-> arg, ok |-> r.ok, raised |-> r.raised]
                          /\ hist' = HistAfter(hist, game, r.g, op, pid, r.ok)
                          /\ UNCHANGED call

\* a call of a pure function: its inputs, then what it handed back
NoCall == [op |-> "", resources |-> NoRes, cost |-> <<>>, can |-> FALSE, ok |-> FALSE, after |-> NoRes]

NoHist == [batch |-> <<>>, seen |-> <<>>, seen_round_1 |-> <<>>, first |-> NoPlayer, takes |-> <<>>, round |-> 0]

\* new_game in server.py: create_new_game, then deal_initial_cards under the same lock
DealInitialCards(shM, shA) == /\ game.phase = "setup"
                              /\ Apply("deal_initial_cards", NoPlayer, "", Ret(deal_initial_cards(game, Shuffled(Names(MAGES), shM), Shuffled(Names(ARTIFACTS), shA)), TRUE))

\* draft_pick / bot_handle_draft: the pick, then the pass or the next stage once everybody has picked
DraftPick(pid, card) == LET r == player_picks_card(game, pid, card)
                        IN Apply("player_picks_card", pid, "", IF r.ok THEN Ret(advance_draft(r.g), TRUE) ELSE r)

\* mage_select: the selection, then the reveal once everybody has selected
MageSelect(pid, mage) == LET r == player_selects_mage(game, pid, mage)
                         IN Apply("player_selects_mage", pid, "", IF r.ok /\ all_mages_selected(r.g) THEN Ret(reveal_mages_and_start_magic_items(r.g), TRUE) ELSE r)

MagicItemSelect(pid, item, sh) == Apply("player_takes_magic_item", pid, "", player_takes_magic_item(game, pid, item, sh))

SetCollectionChoice(pid, card_name, take_all) == Apply("set_collection_choice", pid, "", set_collection_choice(game, pid, card_name, take_all))

SetIncomeChoice(pid, card_name, resources) == Apply("set_income_choice", pid, "", set_income_choice(game, pid, card_name, resources))

SetAutoSkip(pid, auto_skip) == Apply("set_auto_skip_places_of_power", pid, "", set_auto_skip_places_of_power(game, pid, auto_skip))

WaitForEarlier(pid) == Apply("player_waits_for_earlier", pid, "", player_waits_for_earlier(game, pid))

FinalizeIncome(pid) == Apply("player_finalizes_income", pid, "", player_finalizes_income(game, pid))

Pass(pid, item) == Apply("player_pass", pid, item, player_pass(game, pid, item))

PlayCard(pid, card_name, any_payment) == Apply("player_play_card", pid, "", player_play_card(game, pid, card_name, any_payment))

BuyPlaceOfPower(pid, pop_name) == Apply("player_buy_place_of_power", pid, "", player_buy_place_of_power(game, pid, pop_name))

BuyMonument(pid, monument_name, from_deck) == Apply("player_buy_monument", pid, "", player_buy_monument(game, pid, monument_name, from_deck))

DiscardCard(pid, card_name, gain_gold, gain_resources) == Apply("player_discard_card", pid, "", player_discard_card(game, pid, card_name, gain_gold, gain_resources))

\* action_use_ability in server.py
UseAbility(pid, card_name, ability_index, cost_choices, effect_choices) == Apply("use_ability", pid, "", use_ability(game, pid, card_name, ability_index, cost_choices, effect_choices))

\* income_start in server.py: from the playing phase only
IncomeStart == /\ game.phase = "playing"
               /\ Apply("income_start", NoPlayer, "", Ret(start_income_phase(game), TRUE))

(***************************************************************************)
(* Spec: a whole game, from the created game through the rounds            *)
(***************************************************************************)
\* rounds followed before the game is left alone
MaxRounds == 1

\* how many of the offered cards, from the front, a drafting player picks among
PickWidth == 1

NewGames(counts, orders) == {create_new_game(n, f, Shuffled(PLACES_OF_POWER_PAIRS, sh), [i \in 1..Len(PLACES_OF_POWER_PAIRS) |-> IF sh = "keep" THEN 0 ELSE 1], Shuffled(MONUMENTS, sh)) : <<n, f, sh>> \in {<<n, f, sh>> \in counts \X (0..(MaxPlayers - 1)) \X orders : f < n}}

Started == [op |-> "create_new_game", pid |-> NoPlayer, arg |-> "", ok |-> TRUE, raised |-> FALSE]

Init == /\ game \in NewGames({2}, {"keep"})
        /\ last = Started
        /\ hist = NoHist
        /\ call = NoCall

\* the ids a caller may name: the players and one id that is not in the game
CallerIds == PlayerIds(game) \cup {NumPlayers(game)}

\* the cards a caller may name out of a list: the first few and one that is not in it
Named(cards, width) == {cards[i] : i \in 1..Min(width, Len(cards))} \cup {"Unknown"}

Offered(pid) == IF game.draft_state # None /\ pid \in PlayerIds(game) THEN game.draft_state[1].cards_to_pick[pid] ELSE <<>>

MageOptions(pid) == IF game.draft_state # None /\ pid \in PlayerIds(game) THEN game.draft_state[1].mage_options[pid] ELSE <<>>

HandOf(pid) == IF pid \in PlayerIds(game) THEN game.players[pid].hand ELSE <<>>

InPlay == hist.round <= MaxRounds

\* the player whose turn it is, when a turn is to be taken
Movers == IF game.phase = "playing" /\ game.action_state # None THEN {game.action_state[1].current_player} ELSE {}

\* the artifacts a player controls, by name
ArtifactsOf(pid) == IF pid \in PlayerIds(game) THEN [i \in DOMAIN game.players[pid].artifacts |-> game.players[pid].artifacts[i].card] ELSE <<>>

Next == \/ \E shA \in {"stack", "reverse"} : DealInitialCards("keep", shA)
        \/ \E pid \in CallerIds : \E card \in Named(Offered(pid), PickWidth) : game.phase \in {"drafting_round_1", "drafting_round_2"} /\ DraftPick(pid, card)
        \/ \E pid \in CallerIds : \E mage \in Named(MageOptions(pid), 1) : game.phase = "mage_selection" /\ MageSelect(pid, mage)
        \/ \E pid \in CallerIds : \E item \in Named(game.available_magic_items, 1) : game.phase = "magic_item_selection" /\ MagicItemSelect(pid, item, "keep")
        \/ \E pid \in CallerIds : InPlay /\ game.phase = "income" /\ FinalizeIncome(pid)
        \/ \E pid \in CallerIds : InPlay /\ game.phase = "income" /\ WaitForEarlier(pid)
        \/ \E pid \in Movers : \E item \in {""} \cup Named(Reverse(game.available_magic_items), 1) : InPlay /\ game.phase = "playing" /\ Pass(pid, item)
        \/ \E pid \in Movers : \E card \in Named(HandOf(pid), 1) : InPlay /\ game.phase = "playing" /\ PlayCard(pid, card, <<>>)
        \/ \E pid \in Movers : \E card \in Named(HandOf(pid), 1) : \E gold \in BOOLEAN : InPlay /\ game.phase = "playing" /\ DiscardCard(pid, card, gold, IF gold THEN <<>> ELSE << <<"red", 2>> >>)
        \/ \E pid \in Movers : \E card \in Named(ArtifactsOf(pid), 2) : \E index \in -1..2 : \E choices \in {NoCostChoices, [NoCostChoices EXCEPT !.any_payment = << <<"red", 2>> >>]} : InPlay /\ game.phase = "playing" /\ UseAbility(pid, card, index, choices, NoEffectChoices)
        \/ InPlay /\ IncomeStart

Spec == Init /\ [][Next]_vars

(***************************************************************************)
(* Properties of the whole game                                            *)
(***************************************************************************)
PhaseIndex(phase) == IndexOf(GamePhase, phase)

\* C1: the phase changes only to the next phase of the list setup, drafting_round_1, drafting_round_2,
\* mage_selection, magic_item_selection, income, playing, and from playing only to income or game_over:
\* no phase is skipped and no earlier phase is entered again
PhaseOrder == [][game'.phase # game.phase => IF game.phase = "playing" THEN game'.phase \in {"income", "game_over"} ELSE PhaseIndex(game'.phase) = PhaseIndex(game.phase) + 1 /\ game.phase # "game_over"]_vars

\* a round has been played through: the income phase was entered again after playing
PhaseOrderWitness == game.phase = "income" /\ hist.round = 2 /\ last.op = "player_pass" /\ last.ok

TokenHolders == {i \in PlayerIds(game) : game.players[i].has_first_player_token}

\* C2: in every reachable state exactly one player has has_first_player_token = true
OneTokenHolder == Cardinality(TokenHolders) = 1

\* a pass failed after it had moved the token to the passer, and a pass succeeded after that
OneTokenHolderWitness == last.op = "player_pass" /\ ~last.ok /\ last.pid \in TokenHolders /\ hist.first # last.pid /\ game.phase = "playing" /\ game.action_state[1].current_player = last.pid

Pool(g) == g.available_magic_items

\* C9: after a successful player_pass the passer holds an item that was in the pool before the call (the named
\* item, or the pool's first item when none is named), the passer's previous item is in the pool, the new
\* item is not, and the pool has the size it had
PassSwapsItem == [][(last'.op = "player_pass" /\ last'.ok) => LET new_item == game'.players[last'.pid].magic_item.card
                                                                     old_item == game.players[last'.pid].magic_item.card
                                                                 IN /\ Contains(Pool(game), new_item)
                                                                    /\ new_item = (IF last'.arg # "" THEN last'.arg ELSE Pool(game)[1])
                                                                    /\ Contains(Pool(game'), old_item)
                                                                    /\ ~Contains(Pool(game'), new_item)
                                                                    /\ Len(Pool(game')) = Len(Pool(game))]_vars

\* a pass that named its item succeeded
PassSwapsItemWitness == last.op = "player_pass" /\ last.ok /\ last.arg # "" /\ game.players[last.pid].magic_item.card = last.arg /\ ~Contains(Pool(game), last.arg)

FaceUp(g) == \E i \in PlayerIds(g) : g.players[i].has_first_player_token /\ g.players[i].first_player_token_face_up

\* C10: a successful pass made while the token is face up leaves the token with the passer, and with nobody
\* else, face down; a pass made while the token is face down leaves the token where it was
PassTakesToken == [][last'.op = "player_pass" => /\ (last'.ok /\ FaceUp(game)) => (\A i \in PlayerIds(game) : game'.players[i].has_first_player_token <=> i = last'.pid) /\ ~game'.players[last'.pid].first_player_token_face_up
                                                 /\ ~FaceUp(game) => first_player(game') = first_player(game)]_vars

\* the token went from the first player to another player, who passed first
PassTakesTokenWitness == last.op = "player_pass" /\ last.ok /\ game.phase = "playing" /\ TokenHolders = {last.pid} /\ hist.first # last.pid /\ ~FaceUp(game) /\ Cardinality({i \in PlayerIds(game) : game.action_state[1].passed[i]}) = 1

\* C4: no partial payment on failure: whenever use_ability returns failure, the game after the call equals the
\* game before it (no card tapped or destroyed, no pool or store changed, no card discarded, no turn advanced)
FailedAbilityChangesNothing == [][(last'.op = "use_ability" /\ ~last'.ok /\ ~last'.raised) => game' = game]_vars

\* C5: every mutating operation ends by returning a success or failure signal, whatever its arguments: none
\* ends in a raised error
NoOperationRaises == ~last.raised


(***************************************************************************)
(* SpecSetup: the setup of a game for 2, 3 and 4 players, from the created *)
(* game to the first income phase                                          *)
(***************************************************************************)
\* how many of the offered cards player 0 picks among while more than two are offered; every other pick is the first card
FreeWidth == 2

InitSetup == /\ game \in NewGames(MinPlayers..MaxPlayers, {"keep"})
             /\ last = Started
             /\ hist = NoHist
             /\ call = NoCall

NextSetup == \/ DealInitialCards("rotate", "reverse")
             \/ \E pid \in CallerIds : \E card \in Named(Offered(pid), IF pid = 0 /\ Len(Offered(pid)) > 2 THEN FreeWidth ELSE 1) : game.phase \in {"drafting_round_1", "drafting_round_2"} /\ DraftPick(pid, card)
             \/ \E pid \in CallerIds : \E mage \in Named(MageOptions(pid), IF pid = 0 THEN 2 ELSE 1) : game.phase = "mage_selection" /\ MageSelect(pid, mage)
             \/ \E pid \in CallerIds : \E item \in Named(game.available_magic_items, IF pid = 0 THEN 2 ELSE 1) : \E sh \in {"keep", "rotate"} : game.phase = "magic_item_selection" /\ MagicItemSelect(pid, item, sh)

SpecSetup == InitSetup /\ [][NextSetup]_vars

Drafted(pid) == IF game.draft_state # None THEN Len(game.draft_state[1].drafted_cards[pid]) ELSE Len(game.players[pid].hand) + Len(game.players[pid].deck)

RoundOneDone == game.phase \in {"drafting_round_2", "mage_selection"}

DraftDone == game.phase \notin {"setup", "drafting_round_1", "drafting_round_2"}

\* how often the batch of player j was offered to a player whose offers came from the owners in seen
TimesSeen(seen, j) == Cardinality({k \in DOMAIN seen : seen[k] = j})

\* C7 as stated: once round 1 is complete every player has picked 4 cards in it and has been offered the batch of
\* every other player exactly once, each offer coming from the previous player (clockwise); round 2 hands the
\* cards on the other way and ends with 8 drafted cards for every player
DraftSeesOthersOnce == /\ RoundOneDone => \A p \in PlayerIds(game) : /\ Drafted(p) >= DraftBatch
                                                                     /\ game.phase = "drafting_round_2" /\ hist.seen[p] = <<p>> /\ Offered(p) # <<>> => Drafted(p) = DraftBatch
                                                                     /\ \A j \in PlayerIds(game) \ {p} : TimesSeen(hist.seen_round_1[p], j) = 1
                                                                     /\ \A k \in DOMAIN hist.seen_round_1[p] : hist.seen_round_1[p][k] = (p - (k - 1)) % NumPlayers(game)
                       /\ DraftDone => \A p \in PlayerIds(game) : Drafted(p) = 2 * DraftBatch /\ \A k \in DOMAIN hist.seen[p] : hist.seen[p][k] = (p + (k - 1)) % NumPlayers(game)

\* C7 amended: the k-th offer of round 1 to player p is what is left of the batch of player (p - (k - 1)) mod N,
\* so every other player's batch is offered at least once, and exactly once when N is 3 or 4 (N = 2 brings the
\* own batch and the other's batch twice each); the picks are 4 after round 1 and 8
\* after round 2, whose k-th offer comes from the batch of player (p + (k - 1)) mod N
DraftRotation == /\ RoundOneDone => \A p \in PlayerIds(game) : /\ Drafted(p) >= DraftBatch
                                                               /\ game.phase = "drafting_round_2" /\ hist.seen[p] = <<p>> /\ Offered(p) # <<>> => Drafted(p) = DraftBatch
                                                               /\ Len(hist.seen_round_1[p]) = DraftBatch
                                                               /\ \A j \in PlayerIds(game) \ {p} : TimesSeen(hist.seen_round_1[p], j) >= 1 /\ (NumPlayers(game) > MinPlayers => TimesSeen(hist.seen_round_1[p], j) = 1)
                                                               /\ \A k \in DOMAIN hist.seen_round_1[p] : hist.seen_round_1[p][k] = (p - (k - 1)) % NumPlayers(game)
                 /\ DraftDone => \A p \in PlayerIds(game) : Drafted(p) = 2 * DraftBatch /\ Len(hist.seen[p]) = DraftBatch /\ \A k \in DOMAIN hist.seen[p] : hist.seen[p][k] = (p + (k - 1)) % NumPlayers(game)

\* three players have drafted both rounds, player 0 having taken second cards on the way
DraftRotationWitness == game.phase = "mage_selection" /\ NumPlayers(game) = 3 /\ hist.seen_round_1[0] = <<0, 2, 1, 0>> /\ hist.seen[0] = <<0, 1, 2, 0>> /\ game.draft_state[1].drafted_cards[0][1] \notin {hist.batch[0][1]}

\* C8: the k-th successful take of a magic item is made by player (f - k) mod N, f being the holder of the
\* first-player token; no other take succeeds, every player takes one item and the token holder takes last
TakesInReverseOrder == /\ \A k \in DOMAIN hist.takes : hist.takes[k] = (hist.first - k) % NumPlayers(game)
                       /\ Len(hist.takes) <= NumPlayers(game)
                       /\ hist.first # NoPlayer => hist.first \in TokenHolders
                       /\ (last.op = "player_takes_magic_item" /\ last.ok) => last.pid = hist.takes[Len(hist.takes)]
                       /\ game.phase \in {"income", "playing", "game_over"} => Len(hist.takes) = NumPlayers(game) /\ hist.takes[NumPlayers(game)] = hist.first /\ \A p \in PlayerIds(game) : TimesSeen(hist.takes, p) = 1 /\ game.players[p].magic_item.card # ""

\* four players have taken their items, after a take out of turn had failed
TakesInReverseOrderWitness == game.phase = "income" /\ NumPlayers(game) = 4 /\ Len(hist.takes) = 4 /\ hist.first = 1 /\ hist.takes = <<0, 3, 2, 1>>

\* a take by a player other than the selector failed
TakeOutOfTurnWitness == game.phase = "magic_item_selection" /\ last.op = "player_takes_magic_item" /\ ~last.ok /\ last.pid \in PlayerIds(game) /\ last.pid # game.draft_state[1].magic_item_selector /\ Len(hist.takes) = 1

(***************************************************************************)
(* SpecPay: can_afford_cost and pay_cost on a pool and a cost, both drawn  *)
(* from bounded sets; the check is followed by the payment, as the callers *)
(* do it                                                                   *)
(***************************************************************************)
\* the largest count of one resource in a pool
MaxAmount == 2

\* the largest amount a cost names for one resource
MaxCost == 1

\* the largest 'any' amount of a cost
MaxAny == 2

\* the cost dict with the positive amounts of f, in the order red, blue, green, black, gold, any
CostDict(f) == SelectSeq([i \in 1..(Len(ResourceType) + 1) |-> IF i <= Len(ResourceType) THEN <<ResourceType[i], f[ResourceType[i]]>> ELSE <<"any", f["any"]>>], LAMBDA e : e[2] > 0)

Costs == {CostDict([k \in Resources \cup {"any"} |-> IF k = "any" THEN c[2] ELSE c[1][k]]) : c \in [Resources -> 0..MaxCost] \X (0..MaxAny)}

InitPay == /\ game \in NewGames({MinPlayers}, {"keep"})
           /\ first_player(game) = 0
           /\ last = Started
           /\ hist = NoHist
           /\ call \in {[NoCall EXCEPT !.op = "input", !.resources = pool, !.cost = cost, !.after = pool] : <<pool, cost>> \in [Resources -> 0..MaxAmount] \X Costs}

CanAffordCost == /\ call.op = "input"
                 /\ call' = [call EXCEPT !.op = "can_afford_cost", !.can = can_afford_cost(call.resources, call.cost)]
                 /\ UNCHANGED <<game, last, hist>>

PayCost == /\ call.op = "can_afford_cost"
           /\ call' = [call EXCEPT !.op = "pay_cost", !.ok = pay_cost(call.resources, call.cost, <<>>).ok, !.after = pay_cost(call.resources, call.cost, <<>>).pool]
           /\ UNCHANGED <<game, last, hist>>

NextPay == CanAffordCost \/ PayCost

SpecPay == InitPay /\ [][NextPay]_vars

\* what the cost leaves of resource r once its named amount is off
LeftOf(r) == call.resources[r] - DictGet(call.cost, r, 0)

\* the part of the 'any' amount that falls on the i-th of red, blue, green, black: what the earlier ones could not cover
ShareOf(i) == Min(LeftOf(NonGold[i]), Max(DictGet(call.cost, "any", 0) - SumSeq([j \in 1..(i - 1) |-> LeftOf(NonGold[j])]), 0))

\* C6: when can_afford_cost answers true, pay_cost without a split returns true, takes each named amount from its
\* own type and the 'any' amount from red, then blue, then green, then black, never from gold, and leaves no
\* count negative; when can_afford_cost answers false, pay_cost returns false and takes nothing
AffordAndPayAgree == call.op = "pay_cost" => IF call.can
                                             THEN /\ call.ok
                                                  /\ call.after["gold"] = LeftOf("gold")
                                                  /\ \A i \in DOMAIN NonGold : call.after[NonGold[i]] = LeftOf(NonGold[i]) - ShareOf(i)
                                                  /\ SumSeq([i \in DOMAIN NonGold |-> ShareOf(i)]) = DictGet(call.cost, "any", 0)
                                                  /\ \A r \in Resources : call.after[r] >= 0
                                             ELSE ~call.ok /\ call.after = call.resources

\* a cost of 1 red and 2 of any kind was paid from 2 red, 1 green and gold: the red went first, then the green, the gold stayed
AffordAndPayAgreeWitness == /\ call.op = "pay_cost" /\ call.can /\ call.ok
                            /\ call.cost = << <<"red", 1>>, <<"any", 2>> >>
                            /\ call.resources = [red |-> 2, blue |-> 0, green |-> 1, black |-> 1, gold |-> 2]
                            /\ call.after = [red |-> 0, blue |-> 0, green |-> 0, black |-> 1, gold |-> 2]

\* a cost that could not be afforded was refused with the pool as it was
PayRefusedWitness == call.op = "pay_cost" /\ ~call.can /\ ~call.ok /\ DictGet(call.cost, "any", 0) = 2 /\ call.resources = [red |-> 1, blue |-> 0, green |-> 0, black |-> 0, gold |-> 2]

(***************************************************************************)
(* SpecCalls: every mutating operation, called at any time by any caller   *)
(***************************************************************************)
\* the first of the names a caller may take from a list, or a name that is in no list
FirstOf(cards) == IF Len(cards) > 0 THEN cards[1] ELSE "Unknown"

MageOf(pid) == game.players[pid].mage.card

NextCalls == \/ DealInitialCards("keep", "stack")
             \/ \E pid \in PlayerIds(game) : InPlay /\ DraftPick(pid, FirstOf(Offered(pid)))
             \/ \E pid \in PlayerIds(game) : InPlay /\ MageSelect(pid, FirstOf(MageOptions(pid)))
             \/ \E pid \in PlayerIds(game) : InPlay /\ MagicItemSelect(pid, FirstOf(game.available_magic_items), "keep")
             \/ InPlay /\ SetCollectionChoice(0, MageOf(0), TRUE)
             \/ InPlay /\ SetIncomeChoice(0, MageOf(0), << <<"red", 1>> >>)
             \/ InPlay /\ SetAutoSkip(0, TRUE)
             \/ \E pid \in PlayerIds(game) : InPlay /\ WaitForEarlier(pid)
             \/ \E pid \in PlayerIds(game) : InPlay /\ FinalizeIncome(pid)
             \/ \E pid \in CallerIds : \E item \in {""} \cup Named(Reverse(game.available_magic_items), 1) : InPlay /\ Pass(pid, item)
             \/ \E pid \in CallerIds : InPlay /\ PlayCard(pid, FirstOf(HandOf(pid)), <<>>)
             \/ \E pid \in CallerIds : InPlay /\ BuyPlaceOfPower(pid, FirstOf(game.available_places_of_power))
             \/ \E pid \in CallerIds : InPlay /\ BuyMonument(pid, FirstOf(game.available_monuments), FALSE)
             \/ \E pid \in CallerIds : InPlay /\ DiscardCard(pid, FirstOf(HandOf(pid)), TRUE, <<>>)
             \/ \E pid \in CallerIds : InPlay /\ UseAbility(pid, FirstOf(ArtifactsOf(pid)), 0, NoCostChoices, NoEffectChoices)

SpecCalls == Init /\ [][NextCalls]_vars

\* the phases an operation is valid for
ValidPhases(op) == CASE op = "player_picks_card" -> {"drafting_round_1", "drafting_round_2"}
                     [] op = "player_selects_mage" -> {"mage_selection"}
                     [] op = "player_takes_magic_item" -> {"magic_item_selection"}
                     [] op \in {"set_collection_choice", "set_income_choice", "set_auto_skip_places_of_power", "player_waits_for_earlier", "player_finalizes_income"} -> {"income"}
                     [] OTHER -> {"playing"}

ActionOps == {"player_play_card", "player_buy_place_of_power", "player_buy_monument", "player_discard_card", "player_pass", "use_ability"}

MutatingOps == ActionOps \cup {"player_picks_card", "player_selects_mage", "player_takes_magic_item", "set_collection_choice", "set_income_choice", "set_auto_skip_places_of_power", "player_waits_for_earlier", "player_finalizes_income"}

\* a call made in state g in a phase the operation is not valid for, or of an action-phase operation by a
\* player who is not the current player
Misplaced(g, op, pid) == \/ g.phase \notin ValidPhases(op)
                         \/ op \in ActionOps /\ g.action_state # None /\ g.action_state[1].current_player # pid

\* C3: every mutating operation called in a phase it is not valid for, and every action-phase operation called
\* by a player who is not the current player, returns failure and leaves the whole game unchanged
MisplacedCallsFail == [][(last'.op \in MutatingOps /\ Misplaced(game, last'.op, last'.pid)) => (~last'.ok /\ ~last'.raised /\ game' = game)]_vars

\* a player of the game who holds a hand card has called play card in the income phase, and was refused
MisplacedCallsFailWitness == last.op = "player_play_card" /\ ~last.ok /\ game.phase = "income" /\ last.pid \in PlayerIds(game) /\ Len(HandOf(last.pid)) > 0

\* a player whose turn it is not has called pass in the playing phase, and was refused
OutOfTurnWitness == last.op = "player_pass" /\ ~last.ok /\ game.phase = "playing" /\ last.pid \in PlayerIds(game) /\ game.action_state[1].current_player # last.pid /\ ~game.action_state[1].passed[last.pid]

(***************************************************************************)
(* The end of a round                                                      *)
(***************************************************************************)
\* the step is a successful pass of the only player who had not passed yet
LastPass == last'.op = "player_pass" /\ last'.ok /\ game.action_state # None /\ \A i \in PlayerIds(game) \ {last'.pid} : game.action_state[1].passed[i]

\* C11: the phase leaves playing exactly in the step in which the last player who had not passed passes, and
\* at that step it becomes game_over if some player's score is at least 10 at that moment, and income otherwise
RoundEndsOnLastPass == [][game.phase = "playing" => /\ (game'.phase # "playing" <=> LastPass)
                                                    /\ (LastPass => game'.phase = IF \E i \in PlayerIds(game') : calculate_player_points(game'.players[i]) >= VictoryPoints THEN "game_over" ELSE "income")]_vars

(***************************************************************************)
(* Turn order                                                              *)
(***************************************************************************)
\* the first player clockwise after p who has not passed in g, p itself when all others have
ClockwiseAfter(g, p) == LET n == NumPlayers(g)
                            open == {k \in 1..n : ~g.action_state[1].passed[(p + k) % n]}
                        IN (p + (CHOOSE k \in open : \A j \in open : k <= j)) % n

\* C12: an action phase starts with the holder of the first-player token as current player; after a successful
\* action of player p that does not end the round the current player is the first player clockwise after p
\* who has not passed; in the playing phase the current player has not passed
TurnOrder == [][/\ (game.phase # "playing" /\ game'.phase = "playing") => game'.action_state[1].current_player \in {i \in PlayerIds(game') : game'.players[i].has_first_player_token}
                /\ (last'.op \in ActionOps /\ last'.ok /\ game'.phase = "playing") => game'.action_state[1].current_player = ClockwiseAfter(game', last'.pid)
                /\ game'.phase = "playing" => ~game'.action_state[1].passed[game'.action_state[1].current_player]]_vars

(***************************************************************************)
(* SpecTurns: a round of three players, each taking the first name offered *)
(***************************************************************************)
InitTurns == game \in NewGames({3}, {"keep"}) /\ last = Started /\ hist = NoHist /\ call = NoCall

NextTurns == \/ DealInitialCards("keep", "stack")
             \/ \E pid \in PlayerIds(game) : game.phase \in {"drafting_round_1", "drafting_round_2"} /\ DraftPick(pid, FirstOf(Offered(pid)))
             \/ \E pid \in PlayerIds(game) : game.phase = "mage_selection" /\ MageSelect(pid, FirstOf(MageOptions(pid)))
             \/ \E pid \in PlayerIds(game) : game.phase = "magic_item_selection" /\ MagicItemSelect(pid, FirstOf(game.available_magic_items), "keep")
             \/ \E pid \in PlayerIds(game) : InPlay /\ game.phase = "income" /\ WaitForEarlier(pid)
             \/ \E pid \in PlayerIds(game) : InPlay /\ game.phase = "income" /\ FinalizeIncome(pid)
             \/ \E pid \in Movers : \E item \in {"", FirstOf(game.available_magic_items)} : InPlay /\ Pass(pid, item)
             \/ \E pid \in Movers : InPlay /\ PlayCard(pid, FirstOf(HandOf(pid)), <<>>)
             \/ \E pid \in Movers : InPlay /\ DiscardCard(pid, FirstOf(HandOf(pid)), TRUE, <<>>)
             \/ \E pid \in Movers : InPlay /\ UseAbility(pid, FirstOf(ArtifactsOf(pid)), 0, NoCostChoices, NoEffectChoices)
             \/ InPlay /\ IncomeStart

SpecTurns == InitTurns /\ [][NextTurns]_vars

\* in a game of three a player has acted while the next player clockwise had passed, and the turn went to the player after that one
TurnOrderWitness == /\ last.op \in ActionOps \ {"player_pass"} /\ last.ok /\ game.phase = "playing" /\ NumPlayers(game) = 3
                    /\ game.action_state[1].passed[(last.pid + 1) % 3]
                    /\ game.action_state[1].current_player = (last.pid + 2) % 3

\* a player has acted after all others had passed, and is the current player again
TurnWrapsWitness == /\ last.op \in ActionOps \ {"player_pass"} /\ last.ok /\ game.phase = "playing"
                    /\ game.action_state[1].current_player = last.pid
                    /\ \A i \in PlayerIds(game) \ {last.pid} : game.action_state[1].passed[i]

(***************************************************************************)
(* SpecVictory: check_victory over games set up as the engine's tests do   *)
(***************************************************************************)
\* the most copies of Bone Dragon a player is given
MaxCopies == 10

\* the most red, and the most gold, a player is given
MaxHeld == 1

Copies == {0, MaxCopies - 1, MaxCopies}

Held == {[r \in Resources |-> IF r = "red" THEN red ELSE IF r = "gold" THEN gold ELSE 0] : red \in 0..MaxHeld, gold \in 0..MaxHeld}

\* the created game g put into the playing phase, player i controlling copies[i] Bone Dragons and holding pools[i],
\* the first-player token left where it is or taken from its holder
Rigged(g, copies, pools, token) == [g EXCEPT !.phase = "playing",
                                             !.players = [i \in PlayerIds(g) |-> [g.players[i] EXCEPT !.artifacts = [k \in 1..copies[i] |-> ControlledCard("Bone Dragon")],
                                                                                                      !.resources = pools[i],
                                                                                                      !.has_first_player_token = @ /\ token]]]

InitVictory == /\ \E g \in NewGames({2, 3}, {"keep"}) : \E copies \in [PlayerIds(g) -> Copies] : \E pools \in [PlayerIds(g) -> Held] : \E token \in BOOLEAN : game = Rigged(g, copies, pools, token)
               /\ last = Started
               /\ hist = NoHist
               /\ call = NoCall

CheckVictory == /\ call = NoCall
                /\ call' = [op |-> "check_victory", result |-> check_victory(game)]
                /\ UNCHANGED <<game, last, hist>>

NextVictory == CheckVictory

SpecVictory == InitVictory /\ [][NextVictory]_vars

\* the points of the cards a player controls and of the token, counted card by card
ScoreOf(g, i) == LET cards == all_controlled_cards(g.players[i])
                 IN SumSeq([k \in DOMAIN cards |-> IF cards[k].card = "" THEN 0 ELSE CardOf(cards[k].card).points]) + (IF g.players[i].has_first_player_token THEN 1 ELSE 0)

\* C13: a player's score is the sum of the points of all cards the player controls, plus 1 for the first-player
\* token, and check_victory reports game_over exactly when the highest score is at least 10
ScoreAndGameOver == call.op = "check_victory" => /\ \A i \in PlayerIds(game) : call.result.player_scores[i].points = ScoreOf(game, i)
                                                 /\ call.result.game_over <=> \E i \in PlayerIds(game) : ScoreOf(game, i) >= 10

\* the holder of the token controls 9 cards of 1 point, nobody has more than 10 points, and the game is over
ScoreAndGameOverWitness == /\ call.op = "check_victory" /\ call.result.game_over
                           /\ \A i \in PlayerIds(game) : call.result.player_scores[i].points <= 10
                           /\ \E i \in PlayerIds(game) : game.players[i].has_first_player_token /\ Len(game.players[i].artifacts) = 9

\* the highest score is 9, and the game is not over
ScoreNineWitness == /\ call.op = "check_victory" /\ ~call.result.game_over
                    /\ \E i \in PlayerIds(game) : call.result.player_scores[i].points = 9

\* gold counted twice, every other type once
ValueOf(g, i) == 2 * g.players[i].resources["gold"] + g.players[i].resources["red"] + g.players[i].resources["blue"] + g.players[i].resources["green"] + g.players[i].resources["black"]

\* C14: when the game is over a player who alone has the highest score is the winner; of several with the highest
\* score the one with the strictly highest resource value is the winner; if that is shared too there is no winner
\* and is_tie is true; the winner never has fewer points than another player
WinnerByScoreThenValue == (call.op = "check_victory" /\ call.result.game_over)
                              => LET top == {i \in PlayerIds(game) : \A j \in PlayerIds(game) : ScoreOf(game, j) <= ScoreOf(game, i)}
                                     best == {i \in top : \A j \in top : ValueOf(game, j) <= ValueOf(game, i)}
                                 IN /\ Cardinality(top) = 1 => (call.result.winner \in top /\ ~call.result.is_tie)
                                    /\ (Cardinality(top) > 1 /\ Cardinality(best) = 1) => (call.result.winner \in best /\ ~call.result.is_tie)
                                    /\ (Cardinality(top) > 1 /\ Cardinality(best) > 1) => (call.result.winner = NoPlayer /\ call.result.is_tie)
                                    /\ call.result.winner # NoPlayer => \A j \in PlayerIds(game) : ScoreOf(game, j) <= ScoreOf(game, call.result.winner)

\* two players share the highest score, and the one holding 1 gold has won against the one holding 1 red
WinnerByScoreThenValueWitness == /\ call.op = "check_victory" /\ call.result.game_over /\ call.result.winner # NoPlayer
                                 /\ \E j \in PlayerIds(game) \ {call.result.winner} : /\ ScoreOf(game, j) = ScoreOf(game, call.result.winner)
                                                                                       /\ game.players[j].resources["red"] = 1 /\ game.players[j].resources["gold"] = 0
                                 /\ game.players[call.result.winner].resources["gold"] = 1 /\ game.players[call.result.winner].resources["red"] = 0

\* the highest score and the highest resource value are shared: no winner, a tie
TieWitness == /\ call.op = "check_victory" /\ call.result.game_over /\ call.result.is_tie /\ call.result.winner = NoPlayer
              /\ Cardinality(call.result.tied_players) = 2 /\ NumPlayers(game) = 3

(***************************************************************************)
(* Income phase: waiting for earlier players                               *)
(***************************************************************************)
\* the players before p in turn order, clockwise from the holder of the first-player token
EarlierThan(g, p) == LET n == NumPlayers(g)
                         first == first_player(g)
                     IN {q \in PlayerIds(g) : (q - first) % n < (p - first) % n}

\* C15: in the income phase the holder of the first-player token cannot elect to wait; a player who elected to
\* wait and has not finalized can finalize exactly when all players earlier in turn order have finalized; a
\* player who did not elect to wait and has not finalized can finalize
WaitAndFinalize == [][(game.phase = "income" /\ last'.pid \in PlayerIds(game))
                          => /\ (last'.op = "player_waits_for_earlier" /\ game.players[last'.pid].has_first_player_token) => (~last'.ok /\ game' = game)
                             /\ (last'.op = "player_finalizes_income" /\ ~game.income_state[1].finalized[last'.pid])
                                    => (last'.ok <=> (game.income_state[1].waiting_for_earlier[last'.pid] => \A q \in EarlierThan(game, last'.pid) : game.income_state[1].finalized[q]))]_vars

\* a player who waits has asked to finalize while an earlier player had not finalized, and was refused
WaitAndFinalizeWitness == /\ last.op = "player_finalizes_income" /\ ~last.ok /\ game.phase = "income" /\ NumPlayers(game) = 3
                          /\ game.income_state[1].waiting_for_earlier[last.pid] /\ ~game.income_state[1].finalized[last.pid]
                          /\ \E q \in EarlierThan(game, last.pid) : game.income_state[1].finalized[q]
                          /\ \E q \in EarlierThan(game, last.pid) : ~game.income_state[1].finalized[q]

\* a player who waits has finalized after the earlier players
WaitedThenFinalizedWitness == /\ last.op = "player_finalizes_income" /\ last.ok /\ game.phase = "income"
                              /\ game.income_state[1].waiting_for_earlier[last.pid] /\ game.income_state[1].finalized[last.pid]

\* the holder of the token has asked to wait, and was refused
HolderCannotWaitWitness == /\ last.op = "player_waits_for_earlier" /\ ~last.ok /\ game.phase = "income"
                           /\ game.players[last.pid].has_first_player_token /\ ~game.income_state[1].finalized[last.pid]

(***************************************************************************)
(* SpecIncome: an income phase of two players who control cards            *)
(***************************************************************************)
\* the most gold found on a card when the phase starts
MaxStored == 1

\* the artifacts player 0 is given, one at a time
IncomeCards == {"Chalice of Life", "Celestial Horse", "Vault", "Windup Man", "Flaming Pit"}

Stores == {[r \in Resources |-> IF r = "gold" THEN gold ELSE 0] : gold \in 0..MaxStored}

\* what a player can send as the choice for a card's income
IncomeChoices == {<< <<"red", 2>> >>, << <<"blue", 1>> >>, << <<"green", 1>> >>, << <<"red", 1>>, <<"blue", 1>> >>, << <<"gold", 2>> >>, << <<"red", 3>>, <<"blue", -1>> >>}

\* the created game g at the start of an income phase in which player 0 controls the artifact card with
\* store on it and holds pool, and player 1 controls the first place of power with 1 gold on it
Equipped(g, card, store, pool) == start_income_phase([g EXCEPT !.players[0].artifacts = <<[ControlledCard(card) EXCEPT !.resources = store]>>,
                                                               !.players[0].resources = pool,
                                                               !.players[1].places_of_power = <<[ControlledCard(g.available_places_of_power[1]) EXCEPT !.resources = [NoRes EXCEPT !["gold"] = 1]]>>,
                                                               !.available_places_of_power = Tail(@)])

InitIncome == /\ \E g \in NewGames({2}, {"keep"}) : \E card \in IncomeCards : \E store \in Stores : \E pool \in {h \in Held : h["gold"] = 0} : game = Equipped(g, card, store, pool)
              /\ last = Started
              /\ hist = NoHist
              /\ call = NoCall

\* the card a player of SpecIncome controls
OwnCard(pid) == IF pid = 0 THEN game.players[0].artifacts[1].card ELSE game.players[1].places_of_power[1].card

NextIncome == \/ \E pid \in PlayerIds(game) : \E take_all \in BOOLEAN : game.phase = "income" /\ SetCollectionChoice(pid, OwnCard(pid), take_all)
              \/ \E resources \in IncomeChoices : game.phase = "income" /\ SetIncomeChoice(0, OwnCard(0), resources)
              \/ \E auto_skip \in BOOLEAN : game.phase = "income" /\ SetAutoSkip(1, auto_skip)
              \/ \E pid \in PlayerIds(game) : game.phase = "income" /\ WaitForEarlier(pid)
              \/ \E pid \in PlayerIds(game) : game.phase = "income" /\ FinalizeIncome(pid)

SpecIncome == InitIncome /\ [][NextIncome]_vars

\* the pool of every player and the store of every card the player controls
Holdings(g) == [i \in PlayerIds(g) |-> [pool |-> g.players[i].resources, stores |-> [k \in DOMAIN all_controlled_cards(g.players[i]) |-> all_controlled_cards(g.players[i])[k].resources]]]

\* the holdings after one pass of collection and income over every player, with the choices recorded in g
AfterOnePass(g) == Holdings([g EXCEPT !.players = [i \in PlayerIds(g) |-> income_for(g.players[i], g.income_state[1].collection_choices[i], g.income_state[1].income_choices[i], g.income_state[1].auto_skip_places_of_power[i])]])

\* C16: in the income phase no pool and no store changes while the phase lasts; the phase ends in the step in
\* which the last player finalizes, which applies collection and income of every player once and starts the playing phase
IncomeAppliedOnce == [][game.phase = "income" => /\ game'.phase = "income" => Holdings(game') = Holdings(game)
                                                 /\ game'.phase # "income" => /\ last'.op = "player_finalizes_income" /\ last'.ok /\ game'.phase = "playing"
                                                                              /\ ~game.income_state[1].finalized[last'.pid]
                                                                              /\ \A i \in PlayerIds(game) \ {last'.pid} : game.income_state[1].finalized[i]
                                                                              /\ Holdings(game') = AfterOnePass(game)]_vars

\* the last player has finalized: player 0 has taken the gold from the artifact and has the income of the
\* Celestial Horse, player 1 has taken the gold from the place of power
IncomeAppliedOnceWitness == /\ last.op = "player_finalizes_income" /\ last.ok /\ game.phase = "playing"
                            /\ game.players[0].artifacts[1].card = "Celestial Horse"
                            /\ game.players[0].resources = [NoRes EXCEPT !["red"] = 2, !["gold"] = 1]
                            /\ game.players[0].artifacts[1].resources = NoRes
                            /\ game.players[1].resources = [NoRes EXCEPT !["gold"] = 1]
                            /\ game.players[1].places_of_power[1].resources = NoRes

\* a player has finalized while the other has not, and holds what was held before
EarlyFinalizeWitness == /\ last.op = "player_finalizes_income" /\ last.ok /\ game.phase = "income"
                        /\ game.players[0].artifacts[1].card = "Celestial Horse" /\ game.income_state[1].finalized[0] /\ ~game.income_state[1].finalized[1]
                        /\ DictHas(game.income_state[1].income_choices[0], "Celestial Horse")

(***************************************************************************)
(* What the income of player 0's artifact adds, in the step that applies it *)
(***************************************************************************)
\* the step in which the last player finalizes and income is applied
Applied == game.phase = "income" /\ game'.phase = "playing"

\* the income rule of the artifact of player 0
OwnRule == CardOf(OwnCard(0)).effects.income[1]

\* player 0 has chosen to take everything from the artifact
Taken == DictGet(game.income_state[1].collection_choices[0], OwnCard(0), FALSE)

\* what the artifact holds after the collection step
Retained == IF Taken THEN NoRes ELSE game.players[0].artifacts[1].resources

\* what the pool of player 0 has gained beyond what was collected from the artifact
PoolGain == [r \in Resources |-> game'.players[0].resources[r] - game.players[0].resources[r] - (IF Taken THEN game.players[0].artifacts[1].resources[r] ELSE 0)]

\* what the artifact has gained beyond what it held after the collection step
StoreGain == [r \in Resources |-> game'.players[0].artifacts[1].resources[r] - Retained[r]]

TotalOf(gain) == gain["red"] + gain["blue"] + gain["green"] + gain["black"] + gain["gold"]

\* C17: a controlled card whose income is a fixed bundle adds every resource of the bundle to the pool of its
\* controller when income is applied; Chalice of Life adds 1 blue and 1 green
FixedIncomeAddsAll == [][Applied => /\ Len(OwnRule.resources) > 0 => \A k \in DOMAIN OwnRule.resources : PoolGain[OwnRule.resources[k][1]] >= OwnRule.resources[k][2]
                                    /\ OwnCard(0) = "Chalice of Life" => PoolGain = [NoRes EXCEPT !["blue"] = 1, !["green"] = 1]]_vars

\* the artifact of player 0 has an income of count units chosen among several listed types, paid to the pool
\* whatever the artifact holds
OwnRuleIsChoice == Len(OwnRule.resources) = 0 /\ Len(OwnRule.types) > 1 /\ OwnRule.count > 0 /\ ~OwnRule.conditional /\ ~OwnRule.add_to_card

\* every chosen type is listed by the rule and the amounts total its count
ValidChoice(rule, chosen) == (\A k \in DOMAIN chosen : Contains(rule.types, chosen[k][1])) /\ DictSum(chosen) = rule.count

\* C18: a choice for a card with choice income is recorded only if every chosen type is listed and the amounts
\* total count; when income is applied the pool gains what the recorded choice says, or count units of the first
\* listed type when no choice is recorded; in both cases the pool gains count units in total and none of a type
\* that is not listed
ChoiceIncome == [][(game.phase = "income" /\ OwnRuleIsChoice)
                       => /\ (last'.op = "set_income_choice" /\ ~last'.ok) => game' = game
                          /\ game'.phase = "income" => (DictHas(game'.income_state[1].income_choices[0], OwnCard(0)) => ValidChoice(OwnRule, DictGet(game'.income_state[1].income_choices[0], OwnCard(0), <<>>)))
                          /\ Applied => /\ PoolGain = (IF DictHas(game.income_state[1].income_choices[0], OwnCard(0))
                                                       THEN [r \in Resources |-> DictGet(DictGet(game.income_state[1].income_choices[0], OwnCard(0), <<>>), r, 0)]
                                                       ELSE [NoRes EXCEPT ![OwnRule.types[1]] = OwnRule.count])
                                        /\ TotalOf(PoolGain) = OwnRule.count
                                        /\ \A r \in Resources : ~Contains(OwnRule.types, r) => PoolGain[r] = 0]_vars

\* income has been applied with the choice of 1 red and 1 blue recorded for the Celestial Horse
ChoiceIncomeWitness == /\ last.op = "player_finalizes_income" /\ last.ok /\ game.phase = "playing"
                       /\ game.players[0].artifacts[1].card = "Celestial Horse" /\ game.players[0].artifacts[1].resources = NoRes
                       /\ game.players[0].resources = [NoRes EXCEPT !["red"] = 1, !["blue"] = 1, !["gold"] = 1]

\* a choice for the Celestial Horse was refused, none is recorded
ChoiceRefusedWitness == /\ last.op = "set_income_choice" /\ ~last.ok /\ game.phase = "income" /\ ~game.income_state[1].finalized[0]
                        /\ OwnCard(0) = "Celestial Horse" /\ ~DictHas(game.income_state[1].income_choices[0], "Celestial Horse")

\* C19: when income is applied a card whose income is conditional yields nothing, to the pool or to the card, if
\* it holds no resources after the collection step, because it held none or because the player took them all
ConditionalIncome == [][(Applied /\ OwnRule.conditional /\ Retained = NoRes) => (PoolGain = NoRes /\ StoreGain = NoRes)]_vars

\* C20: when income is applied the income of a card whose rule has add_to_card set is put on the card: the pool
\* of its controller gains nothing from it, and the card holds more than after the collection step (for a rule
\* that is conditional too: when the card held resources after the collection step)
IncomeOnCard == [][(Applied /\ OwnRule.add_to_card) => /\ PoolGain = NoRes
                                                       /\ (~OwnRule.conditional \/ Retained # NoRes) => TotalOf(StoreGain) > 0]_vars

(***************************************************************************)
(* Collection: what the step that applies income moves from the cards      *)
(***************************************************************************)
\* player 1 has chosen to take everything from the place of power, and has switched auto-skip off
PlaceTaken == DictGet(game.income_state[1].collection_choices[1], OwnCard(1), FALSE) /\ ~game.income_state[1].auto_skip_places_of_power[1]

\* C21: when income is applied a card the player chose to take all from has its whole store moved to the pool,
\* and the store of any other card is as it was; what lies on a place of power stays there while the auto-skip
\* preference of the player is on, whatever choice is recorded, and follows the choice when it is off (the
\* pool of player 0 is compared in gold, which the artifact holds, where the income of the artifact pays no gold)
TakeAllOrLeave == [][Applied => /\ game'.players[1].places_of_power[1].resources = (IF PlaceTaken THEN NoRes ELSE game.players[1].places_of_power[1].resources)
                                /\ game'.players[1].resources = (IF PlaceTaken THEN [r \in Resources |-> game.players[1].resources[r] + game.players[1].places_of_power[1].resources[r]] ELSE game.players[1].resources)
                                /\ ~OwnRule.add_to_card => game'.players[0].artifacts[1].resources = Retained
                                /\ ~Contains(OwnRule.types, "gold") => game'.players[0].resources["gold"] = game.players[0].resources["gold"] + (IF Taken THEN game.players[0].artifacts[1].resources["gold"] ELSE 0)]_vars

\* income has been applied: player 1, with auto-skip off, has taken the gold from the place of power, and
\* player 0 has left the gold on the artifact
TakeAllOrLeaveWitness == /\ last.op = "player_finalizes_income" /\ last.ok /\ game.phase = "playing"
                         /\ game.players[1].places_of_power[1].resources = NoRes /\ game.players[1].resources = [NoRes EXCEPT !["gold"] = 1]
                         /\ game.players[0].artifacts[1].resources = [NoRes EXCEPT !["gold"] = 1] /\ game.players[0].resources["gold"] = 0

\* player 1 has chosen to take all from the place of power with auto-skip on: the choice is recorded
SkippedPlaceWitness == /\ game.phase = "income" /\ DictGet(game.income_state[1].collection_choices[1], OwnCard(1), FALSE)
                       /\ game.income_state[1].auto_skip_places_of_power[1] /\ game.income_state[1].finalized[1] /\ ~game.income_state[1].finalized[0]

(***************************************************************************)
(* The start of a round                                                    *)
(***************************************************************************)
\* every card a player of g controls is untapped
AllUntapped(g) == \A i \in PlayerIds(g) : \A k \in DOMAIN all_controlled_cards(g.players[i]) : ~all_controlled_cards(g.players[i])[k].tapped

\* C22: in the income phase every controlled card of every player is untapped and the first-player token is face
\* up, and when the phase is entered no player is finalized or waiting
RoundStartsFresh == [][game'.phase = "income" => /\ AllUntapped(game')
                                                 /\ \A i \in PlayerIds(game') : game'.players[i].has_first_player_token => game'.players[i].first_player_token_face_up
                                                 /\ FaceUp(game')
                                                 /\ game.phase # "income" => \A i \in PlayerIds(game') : ~game'.income_state[1].finalized[i] /\ ~game'.income_state[1].waiting_for_earlier[i]]_vars

\* the second income phase has been entered by the last pass: the token has changed hands in the round and a
\* player controls an artifact
RoundStartsFreshWitness == /\ game.phase = "income" /\ hist.round = 2 /\ last.op = "player_pass" /\ last.ok
                           /\ hist.first # first_player(game)
                           /\ \E i \in PlayerIds(game) : Len(game.players[i].artifacts) > 0

(***************************************************************************)
(* SpecAttack: one attack of player 0 on player 1, set up as the tests of  *)
(* the abilities set a game up                                             *)
(***************************************************************************)
\* the most green, the most red, and the most blue, black and gold the attacked player holds
MaxGreen == 2

MaxRed == 3

MaxOther == 1

\* the created game g in the playing phase: each of the two players controls the given artifacts, holds the
\* given hand and the given pool; the turn is with the holder of the first-player token
Staged(g, artifacts, hands, pools) == start_action_phase([g EXCEPT !.players = [i \in PlayerIds(g) |-> [g.players[i] EXCEPT !.artifacts = artifacts[i], !.hand = hands[i], !.resources = pools[i]]]])

\* the created games of two players in which player 0 holds the first-player token
StartGames == {g \in NewGames({2}, {"keep"}) : first_player(g) = 0}

AttackCards == {"Elvish Bow", "Fire Dragon"}

\* what the attacked player controls: nothing, or a card with a reaction to attacks, untapped or tapped
Defences == {<<>>} \cup {<<[ControlledCard(card) EXCEPT !.tapped = tapped]>> : card \in {"Guard Dog", "Dragon Bridle"}, tapped \in BOOLEAN}

AttackedPools == {[green |-> green, red |-> red, blue |-> blue, black |-> black, gold |-> gold] : green \in 0..MaxGreen, red \in 0..MaxRed, blue \in 0..MaxOther, black \in {0, MaxOther}, gold \in {0, MaxOther}}

\* the attack_responses a caller sends: none, or an answer for player 1
Responses == {<<>>} \cup {<< <<1, [response |-> response, discard |-> "", destroy_artifact |-> ""]>> >> : response \in {"pay", "avoid", "reaction"}}

InitAttack == /\ \E g \in StartGames : \E card \in AttackCards : \E defence \in Defences : \E pool \in AttackedPools :
                     game = Staged(g, (0 :> <<ControlledCard(card)>>) @@ (1 :> defence), (0 :> <<>>) @@ (1 :> <<>>), (0 :> [NoRes EXCEPT !["red"] = 1]) @@ (1 :> pool))
              /\ last = Started
              /\ hist = NoHist
              /\ call = NoCall

\* the index of the ability of a card that attacks
AttackIndex(card_name) == LET abilities == CardOf(card_name).effects.abilities
                          IN (CHOOSE k \in DOMAIN abilities : \E e \in DOMAIN abilities[k].effects : abilities[k].effects[e].effect_type = "attack") - 1

\* action_use_ability; call keeps the card, the ability, the answers to an attack and the card to untap that were sent along,
\* and the game the call was made in
UseAbilityCalled(pid, card_name, ability_index, cost_choices, effect_choices) == /\ game' = use_ability(game, pid, card_name, ability_index, cost_choices, effect_choices).g
                                                                                 /\ last' = [op |-> "use_ability", pid |-> pid, arg |-> "", ok |-> use_ability(game, pid, card_name, ability_index, cost_choices, effect_choices).ok, raised |-> use_ability(game, pid, card_name, ability_index, cost_choices, effect_choices).raised]
                                                                                 /\ hist' = HistAfter(hist, game, game', "use_ability", pid, last'.ok)
                                                                                 /\ call' = [op |-> "use_ability", card |-> card_name, index |-> ability_index, responses |-> effect_choices.attack_responses, untap_target |-> effect_choices.untap_target, resource_choices |-> effect_choices.resource_choices, variable_payment |-> cost_choices.variable_payment, before |-> game]

\* the attack of player 0 with the card they control, answered by player 1
Attack(responses) == \E card_name \in AttackCards : /\ Controls(game.players[0], card_name)
                                                    /\ UseAbilityCalled(0, card_name, AttackIndex(card_name), NoCostChoices, [NoEffectChoices EXCEPT !.attack_responses = responses])

NextAttack == \E responses \in Responses : Attack(responses)

SpecAttack == InitAttack /\ [][NextAttack]_vars

\* the attack effect of the card the last call used
AttackEffect(c) == LET effects == CardOf(c.card).effects.abilities[c.index + 1].effects
                   IN effects[CHOOSE e \in DOMAIN effects : effects[e].effect_type = "attack"]

\* an attack has just been carried out and player 1 sent no answer, or the answer "pay"
Attacked == call'.op = "use_ability" /\ last'.ok /\ call'.index = AttackIndex(call'.card)

DefaultResponse == call'.responses = <<>> \/ call'.responses[1][2].response = "pay"

\* what a player who held `held` of a resource pays of it when `owed` units are still owed
Paid(held, owed) == IF held < owed THEN held ELSE owed

\* C23: after an attack of green cost g answered by default, the attacked player has paid min(green held, g)
\* green and, for the green short, twice as many units taken from red, then blue, then black, then gold, each
\* no further than to zero (so g = 2 against 0 green and 3 red takes the 3 red); the attacker's pool is as before
DefaultAttackPayment == [][Attacked /\ DefaultResponse =>
                             LET g == AttackEffect(call').green_cost
                                 was == game.players[1].resources
                                 now == game'.players[1].resources
                                 green == Paid(was["green"], g)
                                 red == Paid(was["red"], 2 * (g - green))
                                 blue == Paid(was["blue"], 2 * (g - green) - red)
                                 black == Paid(was["black"], 2 * (g - green) - red - blue)
                                 gold == Paid(was["gold"], 2 * (g - green) - red - blue - black)
                             IN /\ now = [green |-> was["green"] - green, red |-> was["red"] - red, blue |-> was["blue"] - blue, black |-> was["black"] - black, gold |-> was["gold"] - gold]
                                /\ \A r \in Resources : now[r] >= 0
                                /\ game'.players[0].resources = game.players[0].resources]_vars

\* an attack of green cost 2 answered by default has left a player without green, who held 3 red, with no red
DefaultAttackPaymentWitness == /\ call.op = "use_ability" /\ last.ok /\ call.card = "Fire Dragon" /\ call.responses = <<>>
                               /\ call.before.players[1].resources = [NoRes EXCEPT !["red"] = 3]
                               /\ game.players[1].resources = NoRes
                               /\ game.players[0].artifacts[1].tapped

\* get_attack_reactions: whether the player controls an untapped card with an ability triggered by "attacked"
\* that ignores the attack and whose trigger filter, if any, is among the tags of the attacking card
HasReaction(player, attacking) == \E i \in DOMAIN all_controlled_cards(player) :
                                      LET c == all_controlled_cards(player)[i]
                                      IN /\ c.card # "" /\ ~c.tapped
                                         /\ \E k \in DOMAIN CardOf(c.card).effects.abilities :
                                                LET a == CardOf(c.card).effects.abilities[k]
                                                IN /\ a.trigger = "attacked"
                                                   /\ \E e \in DOMAIN a.effects : a.effects[e].effect_type = "ignore_attack"
                                                   /\ a.trigger_filter = "" \/ a.trigger_filter \in CardOf(attacking).tags

ReactionResponse == call'.responses # <<>> /\ call'.responses[1][2].response = "reaction"

\* C24: an attack answered with "reaction" by a player who controls no untapped card with a matching reaction
\* to attacks is paid for as an attack answered by default
ReactionNeedsCard == [][Attacked /\ ReactionResponse /\ ~HasReaction(game.players[1], call'.card)
                           => game'.players[1].resources = attack_payment(game.players[1].resources, AttackEffect(call').green_cost)]_vars

(***************************************************************************)
(* SpecTap: abilities used over the rounds of a game set up as the tests   *)
(* of the abilities set a game up                                          *)
(***************************************************************************)
\* the most red the player to move starts with
MaxStartRed == 1

InitTap == /\ \E g \in StartGames : \E red \in 0..MaxStartRed :
                  game = Staged(g, (0 :> <<ControlledCard("Elvish Bow"), ControlledCard("Chalice of Fire"), ControlledCard("Guard Dog")>>) @@ (1 :> <<ControlledCard("Athanor")>>),
                                (0 :> <<>>) @@ (1 :> <<>>), (0 :> [NoRes EXCEPT !["red"] = red]) @@ (1 :> [NoRes EXCEPT !["red"] = 1]))
           /\ last = Started
           /\ hist = NoHist
           /\ call = NoCall

\* the artifacts of a player, as a set of names
Controlled(pid) == {game.players[pid].artifacts[i].card : i \in DOMAIN game.players[pid].artifacts}

NextTap == \/ \E pid \in Movers : \E card_name \in Controlled(pid) : \E ability_index \in 0..1 : \E untap_target \in Controlled(pid) \ {"Guard Dog"} :
                  InPlay /\ UseAbilityCalled(pid, card_name, ability_index, NoCostChoices, [NoEffectChoices EXCEPT !.untap_target = untap_target])
           \/ \E pid \in Movers : InPlay /\ Pass(pid, FirstOf(game.available_magic_items))
           \/ \E pid \in PlayerIds(game) : InPlay /\ game.phase = "income" /\ FinalizeIncome(pid)
           \/ InPlay /\ IncomeStart

SpecTap == InitTap /\ [][NextTap]_vars

\* this step is a call of use_ability
Used == last'.op = "use_ability" /\ call'.op = "use_ability" /\ call'.before = game

\* this step is a call of use_ability that names an ability the card has
UsedAbility == Used /\ call'.index + 1 \in DOMAIN CardOf(call'.card).effects.abilities

\* the card the call addressed, as the caller controlled it before and controls it after the call
SourceBefore == CardNamed(game.players[last'.pid], call'.card)

SourceAfter == CardNamed(game'.players[last'.pid], call'.card)

ChosenAbility == CardOf(call'.card).effects.abilities[call'.index + 1]

TapsSelf(ability) == \E i \in DOMAIN ability.costs : ability.costs[i].cost_type = "tap"

\* this step untaps the card named of the player: it is a successful use, by that player, of an ability with
\* an untap effect that is aimed at the card (its own card for the target "self", the card sent along otherwise)
UntapsBy(pid, card_name) == /\ UsedAbility /\ last'.ok /\ last'.pid = pid
                            /\ \E e \in DOMAIN ChosenAbility.effects : /\ ChosenAbility.effects[e].effect_type = "untap"
                                                                      /\ card_name = (IF ChosenAbility.effects[e].target = "self" THEN call'.card ELSE call'.untap_target)

\* an income phase begins with this step
IncomeBegins == game'.phase = "income" /\ last'.op \in {"player_pass", "income_start"}

UsedAgainNextRoundWitness == /\ last.op = "use_ability" /\ last.ok /\ call.card = "Elvish Bow" /\ hist.round = 1
                             /\ game.players[0].artifacts[1].tapped

\* Chalice of Fire has untapped the tapped Elvish Bow within the round
UntappedByEffectWitness == /\ last.op = "use_ability" /\ last.ok /\ call.card = "Chalice of Fire" /\ hist.round = 0
                           /\ call.before.players[0].artifacts[1].tapped /\ ~game.players[0].artifacts[1].tapped

\* the reaction of Guard Dog has been refused as an action
ReactionRefusedWitness == last.op = "use_ability" /\ ~last.ok /\ call.card = "Guard Dog" /\ call.index = 1 /\ ~call.before.players[0].artifacts[3].tapped

(***************************************************************************)
(* SpecConvert: one use of Athanor by the player to move                   *)
(***************************************************************************)
\* the red on Athanor before the call: none, or about the six its second ability takes
AthanorStores == {0, 5, 6, 7}

ConvertPools == {[red |-> red, blue |-> blue, green |-> green, black |-> black, gold |-> gold] : red \in 0..MaxStartRed + 1, blue \in 0..MaxOther, green \in {0, MaxOther}, black \in {0, MaxOther}, gold \in {0, MaxOther}}

InitConvert == /\ \E g \in StartGames : \E stored \in AthanorStores : \E pool \in ConvertPools :
                      game = Staged(g, (0 :> <<[ControlledCard("Athanor") EXCEPT !.resources["red"] = stored]>>) @@ (1 :> <<>>), (0 :> <<>>) @@ (1 :> <<>>), (0 :> pool) @@ (1 :> NoRes))
               /\ last = Started
               /\ hist = NoHist
               /\ call = NoCall

NextConvert == \E ability_index \in 0..1 : UseAbilityCalled(0, "Athanor", ability_index, NoCostChoices, NoEffectChoices)

SpecConvert == InitConvert /\ [][NextConvert]_vars

\* the pool of the player to move and the store of their Athanor, before and after the step
PoolWas == game.players[0].resources

PoolNow == game'.players[0].resources

StoreWas == game.players[0].artifacts[1].resources

StoreNow == game'.players[0].artifacts[1].resources

\* it is the turn of the player and their Athanor is untapped
Ready == IsTurnOf(game, 0) /\ ~game.players[0].artifacts[1].tapped

\* C26: the first ability of an untapped Athanor, in its owner's turn, succeeds exactly when the pool holds a red, and then takes
\* 1 red from the pool and puts 2 red on the card; the second succeeds exactly when the card holds at least
\* 6 red, and then takes 6 red from the card and turns all red, blue, green and black of the pool into as
\* much gold, the total of the pool staying the same; a call that fails changes nothing
AthanorAbilities == [][Used /\ call'.card = "Athanor" =>
                          /\ ~last'.ok => game' = game
                          /\ call'.index = 0 => /\ last'.ok <=> Ready /\ PoolWas["red"] >= 1
                                                /\ last'.ok => /\ PoolNow = [PoolWas EXCEPT !["red"] = @ - 1]
                                                               /\ StoreNow = [StoreWas EXCEPT !["red"] = @ + 2]
                                                               /\ game'.players[0].artifacts[1].tapped
                          /\ call'.index = 1 => /\ last'.ok <=> Ready /\ StoreWas["red"] >= 6
                                                /\ last'.ok => /\ StoreNow = [StoreWas EXCEPT !["red"] = @ - 6]
                                                               /\ PoolNow = [NoRes EXCEPT !["gold"] = PoolWas["gold"] + PoolWas["red"] + PoolWas["blue"] + PoolWas["green"] + PoolWas["black"]]
                                                               /\ TotalOf(PoolNow) = TotalOf(PoolWas)
                                                               /\ game'.players[0].artifacts[1].tapped]_vars

\* the second ability has turned a pool of several kinds into gold, leaving 1 of 7 red on the card
AthanorAbilitiesWitness == /\ last.op = "use_ability" /\ last.ok /\ call.card = "Athanor" /\ call.index = 1
                           /\ call.before.players[0].artifacts[1].resources["red"] = 7 /\ game.players[0].artifacts[1].resources["red"] = 1
                           /\ call.before.players[0].resources = [red |-> MaxStartRed + 1, blue |-> MaxOther, green |-> MaxOther, black |-> MaxOther, gold |-> MaxOther]
                           /\ game.players[0].resources = [NoRes EXCEPT !["gold"] = MaxStartRed + 1 + 4 * MaxOther]

\* the first ability has put 2 red on the card for 1 red of the pool, and the call has ended in the error of rt.value
AthanorRaisedWitness == /\ last.op = "use_ability" /\ last.raised /\ call.card = "Athanor" /\ call.index = 0
                      /\ game.players[0].artifacts[1].resources["red"] = 2 /\ call.before.players[0].resources["red"] = 1 /\ game.players[0].resources["red"] = 0

\* the second ability has been refused to a card holding 5 red
AthanorRefusedWitness == /\ last.op = "use_ability" /\ ~last.ok /\ call.card = "Athanor" /\ call.index = 1
                         /\ game.players[0].artifacts[1].resources["red"] = 5 /\ ~game.players[0].artifacts[1].tapped

DraftPhases == {"drafting_round_1", "drafting_round_2", "mage_selection", "magic_item_selection"}

\* C27: in every state draft_state is there exactly in the drafting and selection phases, income_state
\* exactly in the income phase and action_state exactly in the playing phase
SubstatesFollowPhase == /\ game.draft_state # None <=> game.phase \in DraftPhases
                        /\ game.income_state # None <=> game.phase = "income"
                        /\ game.action_state # None <=> game.phase = "playing"

(***************************************************************************)
(* SpecOver: action phases of games in which a player may hold the points  *)
(* that end the game, and every operation called in what follows           *)
(***************************************************************************)
\* the artifacts, each worth a point, of a player who controls `copies` of them
Dragons(copies) == [k \in 1..copies |-> ControlledCard("Bone Dragon")]

InitOver == /\ \E g \in StartGames : \E first \in {MaxCopies - 2, MaxCopies} : \E second \in {0, MaxCopies} :
                   game = Staged(g, (0 :> Dragons(first)) @@ (1 :> Dragons(second)), (0 :> <<"Elvish Bow">>) @@ (1 :> <<>>), (0 :> [NoRes EXCEPT !["red"] = MaxRed]) @@ (1 :> NoRes))
            /\ last = Started
            /\ hist = NoHist
            /\ call = NoCall

NextOver == \/ \E pid \in PlayerIds(game) : InPlay /\ Pass(pid, FirstOf(game.available_magic_items))
            \/ \E pid \in PlayerIds(game) : InPlay /\ PlayCard(pid, FirstOf(HandOf(pid)), <<>>)
            \/ \E pid \in PlayerIds(game) : InPlay /\ DiscardCard(pid, FirstOf(HandOf(pid)), TRUE, <<>>)
            \/ \E pid \in PlayerIds(game) : InPlay /\ BuyPlaceOfPower(pid, FirstOf(game.available_places_of_power))
            \/ \E pid \in PlayerIds(game) : InPlay /\ BuyMonument(pid, FirstOf(game.available_monuments), FALSE)
            \/ \E pid \in PlayerIds(game) : InPlay /\ UseAbility(pid, "Bone Dragon", 0, NoCostChoices, NoEffectChoices)
            \/ \E pid \in PlayerIds(game) : InPlay /\ DraftPick(pid, "Elvish Bow")
            \/ \E pid \in PlayerIds(game) : InPlay /\ MageSelect(pid, FirstOf(Names(MAGES)))
            \/ \E pid \in PlayerIds(game) : InPlay /\ MagicItemSelect(pid, FirstOf(game.available_magic_items), "keep")
            \/ \E pid \in PlayerIds(game) : InPlay /\ SetCollectionChoice(pid, "Bone Dragon", TRUE)
            \/ \E pid \in PlayerIds(game) : InPlay /\ SetIncomeChoice(pid, "Bone Dragon", << <<"red", 1>> >>)
            \/ \E pid \in PlayerIds(game) : InPlay /\ SetAutoSkip(pid, FALSE)
            \/ \E pid \in PlayerIds(game) : InPlay /\ WaitForEarlier(pid)
            \/ \E pid \in PlayerIds(game) : InPlay /\ FinalizeIncome(pid)
            \/ InPlay /\ IncomeStart

SpecOver == InitOver /\ [][NextOver]_vars

\* C28: a game whose phase is game_over stays as it is through every step, each call made in it failing,
\* and victory_result is set exactly in the states whose phase is game_over
GameOverIsTerminal == [][/\ game.phase = "game_over" => game' = game /\ ~last'.ok
                         /\ game.victory_result # None <=> game.phase = "game_over"
                         /\ game'.victory_result # None <=> game'.phase = "game_over"]_vars

\* a game has ended with the last pass, and a call of use_ability made after that has failed
GameOverIsTerminalWitness == /\ game.phase = "game_over" /\ game.victory_result # None /\ game.victory_result[1].game_over
                             /\ last.op = "use_ability" /\ ~last.ok /\ game.players[0].has_first_player_token

\* a round has ended without the points for a victory, and the game goes on
GameGoesOnWitness == game.phase = "income" /\ game.victory_result = None /\ hist.round = 1 /\ Len(game.players[0].artifacts) = MaxCopies - 2 /\ Len(game.players[1].artifacts) = 0 /\ last.op = "player_pass"

(***************************************************************************)
(* SpecLock: the threads of server.py during the draft. call holds what    *)
(* the deployment adds to the game: the holder of game_lock, and for each  *)
(* thread its position in the handler, the player it acts for, the game it *)
(* found when it took the lock and the card it picked; picks counts the    *)
(* requests to pick that were answered with success                        *)
(***************************************************************************)
NoThread == ""

\* two request threads of the web server and the thread of the bot of player 1
Threads == {"http_1", "http_2", "bot_1"}

\* handlers that run without waiting for the lock
lock_free_always(c) == c.lock \in {NoThread} \cup Threads

\* with game_lock: the lock can be taken when no thread holds it
lock_free(c) == c.lock = NoThread

InitLock == /\ \E g \in NewGames({2}, {"keep"}) : game = deal_initial_cards(g, Names(MAGES), Shuffled(Names(ARTIFACTS), "stack"))
            /\ last = Started
            /\ hist = NoHist
            /\ call = [op |-> "draft", lock |-> NoThread, pc |-> [t \in Threads |-> "idle"], pid |-> [t \in Threads |-> NoPlayer], start |-> [t \in Threads |-> None], card |-> [t \in Threads |-> ""], picks |-> [i \in PlayerIds(game) |-> 0]]

\* draft_pick and run_bot: the thread enters `with game_lock`; a request names its player, the bot acts for its own
Acquire(t, pid) == /\ call.pc[t] = "idle"
                   /\ lock_free(call)
                   /\ game.phase \in {"drafting_round_1", "drafting_round_2"}
                   /\ t = "bot_1" => pid = 1
                   /\ call' = [call EXCEPT !.lock = t, !.pc[t] = "locked", !.pid[t] = pid, !.start[t] = Some(game)]
                   /\ UNCHANGED <<game, last, hist>>

\* draft_pick and bot_handle_draft up to player_picks_card: a card that is not offered, or a pick that is
\* refused, ends the handler and gives the lock back
PickUnderLock(t, card) == /\ call.pc[t] = "locked"
                          /\ LET r == player_picks_card(game, call.pid[t], card)
                             IN IF r.ok THEN /\ game' = r.g
                                             /\ call' = [call EXCEPT !.pc[t] = "picked", !.card[t] = card]
                                             /\ UNCHANGED last
                                ELSE /\ game' = game
                                     /\ call' = [call EXCEPT !.pc[t] = "idle", !.lock = NoThread, !.pid[t] = NoPlayer, !.start[t] = None]
                                     /\ last' = [op |-> "player_picks_card", pid |-> call.pid[t], arg |-> "", ok |-> FALSE, raised |-> r.raised]
                          /\ UNCHANGED hist

\* draft_pick and bot_handle_draft after a successful pick: the cards are passed or the draft moves on, and
\* the handler leaves `with game_lock`
FollowUp(t) == /\ call.pc[t] = "picked"
               /\ game' = advance_draft(game)
               /\ call' = [call EXCEPT !.pc[t] = "idle", !.lock = NoThread, !.pid[t] = NoPlayer, !.start[t] = None, !.card[t] = "", !.picks[call.pid[t]] = @ + 1]
               /\ last' = [op |-> "player_picks_card", pid |-> call.pid[t], arg |-> "", ok |-> TRUE, raised |-> FALSE]
               /\ UNCHANGED hist

NextLock == \/ \E t \in Threads : \E pid \in PlayerIds(game) : Acquire(t, pid)
            \/ \E t \in Threads : \E card \in Named(Offered(call.pid[t]), PickWidth) : PickUnderLock(t, card)
            \/ \E t \in Threads : FollowUp(t)

SpecLock == InitLock /\ [][NextLock]_vars

\* the cards of the current round a player has drafted
DraftedNow(g, i) == Len(g.draft_state[1].drafted_cards[i]) % DraftBatch

\* between two operations the draft is as whole operations leave it: a player who has not picked in the
\* sub-round holds the cards still to pick, a player who has holds none, and not every player has picked
Settled(g, picks) == \A i \in PlayerIds(g) : /\ Len(g.draft_state[1].drafted_cards[i]) = picks[i]
                                             /\ \A j, k \in DOMAIN g.draft_state[1].drafted_cards[i] : j # k => g.draft_state[1].drafted_cards[i][j] # g.draft_state[1].drafted_cards[i][k]
                                             /\ g.phase \in {"drafting_round_1", "drafting_round_2"} =>
                                                    \/ Len(g.draft_state[1].cards_to_pick[i]) = DraftBatch - DraftedNow(g, i)
                                                    \/ /\ Len(g.draft_state[1].cards_to_pick[i]) = 0
                                                       /\ Len(g.draft_state[1].cards_to_pass[i]) = (DraftBatch - DraftedNow(g, i)) % DraftBatch
                                                       /\ \E k \in PlayerIds(g) : Len(g.draft_state[1].drafted_cards[k]) < Len(g.draft_state[1].drafted_cards[i])

\* C29: only the thread that holds the lock is inside a handler and only that thread changes the game; a
\* handler that ends with success leaves the game that the pick and its follow-up, run as one step on the
\* game the handler found, lead to, and one that fails leaves the game it found; and whenever the lock
\* is free every successful pick is among the drafted cards once and the cards have been passed once
\* for every completed sub-round
WholeOperations == [][/\ \A t \in Threads : call'.pc[t] # "idle" => call'.lock = t
                      /\ game' # game => call.lock # NoThread /\ call.pc[call.lock] # "idle" /\ call'.pc[call.lock] # call.pc[call.lock]
                      /\ \A t \in Threads : call.pc[t] = "picked" /\ call'.pc[t] = "idle" =>
                             /\ player_picks_card(call.start[t][1], call.pid[t], call.card[t]).ok
                             /\ game' = advance_draft(player_picks_card(call.start[t][1], call.pid[t], call.card[t]).g)
                      /\ \A t \in Threads : call.pc[t] = "locked" /\ call'.pc[t] = "idle" => game' = call.start[t][1]
                      /\ call'.lock = NoThread => Settled(game', call'.picks)]_vars

\* a request for player 1 found the lock held by the bot of player 1 in the middle of its pick, and the draft
\* has since gone into its second round
WholeOperationsWitness == /\ game.phase = "drafting_round_2" /\ call.lock = "bot_1" /\ call.pc["bot_1"] = "picked"
                          /\ call.pc["http_1"] = "idle" /\ last.pid = 1 /\ ~last.ok
                          /\ call.picks[0] > DraftBatch /\ call.picks[1] = call.picks[0] - 1

\* the draft has been completed by the threads
DraftDoneWitness == game.phase = "mage_selection" /\ call.picks[0] = 2 * DraftBatch /\ call.picks[1] = 2 * DraftBatch /\ call.lock = NoThread

(***************************************************************************)
(* SpecPlay: one card played by the player to move, with or without cards  *)
(* that make it cheaper, set up as the test of the cost reduction sets a   *)
(* game up                                                                 *)
(***************************************************************************)
\* what the player controls: any of the two cards with a cost reduction
Reducers == {<<>>, <<ControlledCard("Dragon Bridle")>>, <<ControlledCard("Homunculus")>>, <<ControlledCard("Dragon Bridle"), ControlledCard("Homunculus")>>}

\* the cards to play: dragons, a demon with gold in its cost, and a card without a tag
PlayCards == {"Fire Dragon", "Wind Dragon", "Bone Dragon", "Possessed Demon Slayer", "Elvish Bow"}

PlayAmounts == {0, 1, MaxRed, MaxRed + 1}

PlayPools == {[red |-> red, blue |-> blue, green |-> green, black |-> black, gold |-> gold] : red \in PlayAmounts \cup {MaxRed + 3}, blue \in PlayAmounts, green \in {0, MaxOther}, black \in PlayAmounts, gold \in {0, MaxOther}}

InitPlay == /\ \E g \in StartGames : \E reducers \in Reducers : \E card \in PlayCards : \E pool \in PlayPools :
                   game = Staged(g, (0 :> reducers) @@ (1 :> <<>>), (0 :> <<card>>) @@ (1 :> <<>>), (0 :> pool) @@ (1 :> NoRes))
            /\ last = Started
            /\ hist = NoHist
            /\ call = NoCall

NextPlay == \E pid \in PlayerIds(game) : PlayCard(pid, FirstOf(HandOf(0)), <<>>)

SpecPlay == InitPlay /\ [][NextPlay]_vars

\* the sum of the reductions of the cards with a cost reduction for one of the tags, among the artifacts
ReductionOf(artifacts, tags) == (IF "dragon" \in tags /\ \E i \in DOMAIN artifacts : artifacts[i].card = "Dragon Bridle" THEN 3 ELSE 0)
                                + (IF "demon" \in tags /\ \E i \in DOMAIN artifacts : artifacts[i].card = "Homunculus" THEN 2 ELSE 0)

\* what is left of an amount, and of a reduction, once the reduction has been taken off the amount
Less(amount, reduction) == IF reduction >= amount THEN 0 ELSE amount - reduction

Rest(amount, reduction) == IF reduction >= amount THEN reduction - amount ELSE 0

\* the cost of a card after a reduction: off the part to pay with any resource first, then off red, blue,
\* green and black, never off gold
CostAfter(cost, reduction) == LET of(r) == DictGet(cost, r, 0)
                                  r1 == Rest(of("any"), reduction)
                                  r2 == Rest(of("red"), r1)
                                  r3 == Rest(of("blue"), r2)
                                  r4 == Rest(of("green"), r3)
                              IN [any |-> Less(of("any"), reduction), red |-> Less(of("red"), r1), blue |-> Less(of("blue"), r2), green |-> Less(of("green"), r3), black |-> Less(of("black"), r4), gold |-> of("gold")]

\* the pool without the named amounts of a cost
AfterNamed(pool, cost) == [r \in Resources |-> pool[r] - cost[r]]

\* the pool without the part of a cost to pay with any resource: off red, blue, green and black in turn
AfterAny(pool, any) == LET red == Paid(pool["red"], any)
                           blue == Paid(pool["blue"], any - red)
                           green == Paid(pool["green"], any - red - blue)
                           black == Paid(pool["black"], any - red - blue - green)
                       IN [pool EXCEPT !["red"] = @ - red, !["blue"] = @ - blue, !["green"] = @ - green, !["black"] = @ - black]

GoldStillPaidWitness == /\ last.op = "player_play_card" /\ last.ok
                        /\ Len(game.players[0].artifacts) = 2 /\ game.players[0].artifacts[1].card = "Homunculus" /\ game.players[0].artifacts[2].card = "Possessed Demon Slayer"
                        /\ game.players[0].resources = [NoRes EXCEPT !["red"] = 1, !["black"] = 1]

\* Fire Dragon has been refused to a player with Dragon Bridle and less than 3 red
TooFewWitness == /\ last.op = "player_play_card" /\ ~last.ok /\ game.players[0].hand = <<"Fire Dragon">>
                 /\ Len(game.players[0].artifacts) = 2 /\ game.players[0].resources["red"] = 1

(***************************************************************************)
(* Gains by choice: use_ability on the cards whose effect lets the caller   *)
(* choose the resources, with the resource_choices a caller can send        *)
(***************************************************************************)
\* the resource_choices sent along: none, right ones for a count of 1, 2 and 3, wrong totals, and gold, which no gain by choice allows
GainChoices == {<<>>, << <<"blue", 1>> >>, << <<"gold", 1>> >>, << <<"red", 2>> >>, << <<"red", 1>>, <<"green", 1>> >>, << <<"blue", 2>>, <<"black", 1>> >>}

\* the cards of the catalog with a gain by choice as an action: Magical Shard 1, Prism 2 for 1 of any kind, Horn of Plenty 3
ChoiceCards == <<ControlledCard("Magical Shard"), ControlledCard("Prism"), ControlledCard("Horn of Plenty")>>

\* as tests/test_abilities.py stages test_resource_choice_effect: the playing phase, player 0 to move and in control of the cards
InitGain == /\ \E g \in StartGames : \E red \in 0..MaxStartRed : \E blue \in 0..MaxOther :
                   game = Staged(g, (0 :> ChoiceCards) @@ (1 :> <<>>), (0 :> <<>>) @@ (1 :> <<>>), (0 :> [NoRes EXCEPT !["red"] = red, !["blue"] = blue]) @@ (1 :> NoRes))
            /\ last = Started
            /\ hist = NoHist
            /\ call = NoCall

\* the variable_payment sent along with a choice, as tests/test_abilities.py sends it to the second ability of Prism: red for
\* blue, red for red, red for nothing named, and more red than the pool can hold
TradeRequests == UNION {{[variable_payment |-> << <<"red", amount>> >>, resource_choices |-> resource_choices] : resource_choices \in {<<>>, << <<"blue", amount>> >>, << <<"red", amount>> >>}} : amount \in 1..MaxStartRed + 1}

GainRequests == {[variable_payment |-> <<>>, resource_choices |-> resource_choices] : resource_choices \in GainChoices} \cup TradeRequests

NextGain == \E pid \in Movers : \E card_name \in Controlled(0) : \E ability_index \in 0..1 : \E request \in GainRequests :
                UseAbilityCalled(pid, card_name, ability_index, [NoCostChoices EXCEPT !.variable_payment = request.variable_payment], [NoEffectChoices EXCEPT !.resource_choices = request.resource_choices])

SpecGain == InitGain /\ [][NextGain]_vars

\* the effect of the ability used is a gain of count resources of the caller's choice among types
GainsByChoice(ability) == Len(ability.effects) = 1 /\ ability.effects[1].effect_type = "gain" /\ ability.effects[1].count # 0 /\ Len(ability.effects[1].types) > 0

\* the caller is to move, the card is untapped and its costs can be paid: nothing stands in the way of the ability
Usable == /\ IsTurnOf(game, last'.pid) /\ Controls(game.players[last'.pid], call'.card) /\ ~SourceBefore.tapped
          /\ can_pay_ability_costs(game.players[last'.pid], SourceBefore, "artifact", ChosenAbility.costs)

\* a choice is valid when it names allowed types only and its amounts, none below 0, add up to count
ValidGainChoice(effect, chosen) == DictSum(chosen) = effect.count /\ \A i \in DOMAIN chosen : Contains(effect.types, chosen[i][1]) /\ chosen[i][2] >= 0

\* what the claim grants: the choice when it is valid, count of the first allowed type otherwise
Granted(effect, chosen) == IF ValidGainChoice(effect, chosen) THEN [r \in Resources |-> DictGet(chosen, r, 0)]
                           ELSE [r \in Resources |-> IF r = effect.types[1] THEN effect.count ELSE 0]

\* what the costs of the ability take from the pool: 1 red, or 1 blue when there is no red, for the 1 of any kind of Prism
CostTaken(ability) == IF \E i \in DOMAIN ability.costs : ability.costs[i].cost_type = "pay"
                      THEN [r \in Resources |-> IF r = (IF game.players[last'.pid].resources["red"] > 0 THEN "red" ELSE "blue") THEN 1 ELSE 0]
                      ELSE NoRes

\* C31: a usable ability whose effect is a gain by choice succeeds and adds to the pool of the caller exactly count resources of
\* the allowed types: the resources of the choice sent along when that choice is valid, and count of the first allowed type for
\* any other choice (none, a wrong total, a type that is not allowed such as gold)
ChoiceGainGrantsCount == [][UsedAbility /\ GainsByChoice(ChosenAbility) /\ Usable =>
                               /\ last'.ok
                               /\ \A r \in Resources : game'.players[last'.pid].resources[r] = game.players[last'.pid].resources[r] - CostTaken(ChosenAbility)[r] + Granted(ChosenAbility.effects[1], call'.resource_choices)[r]]_vars

\* the type and the amount of a variable_payment of one entry
PaidType == call'.variable_payment[1][1]

PaidAmount == call'.variable_payment[1][2]

\* the types the trade may grant: red, blue, green and black without the type paid
TradeTypes == SelectSeq(NonGold, LAMBDA r : r # PaidType)

\* what the claim grants for the amount paid: the choice when it adds up to the amount and names no other than the types
\* the trade may grant, the amount of the first of these types otherwise
Traded == IF DictSum(call'.resource_choices) = PaidAmount /\ \A i \in DOMAIN call'.resource_choices : Contains(TradeTypes, call'.resource_choices[i][1]) /\ call'.resource_choices[i][2] >= 0
          THEN [r \in Resources |-> DictGet(call'.resource_choices, r, 0)]
          ELSE [r \in Resources |-> IF r = TradeTypes[1] THEN PaidAmount ELSE 0]

\* C32: the second ability of a usable Prism, sent a variable_payment of X of one colour that the pool holds, succeeds, takes
\* exactly X of that colour from the pool and adds exactly X of other colours, none of them gold: the resources of the choice
\* sent along, or X of the first other colour when the choice names the colour paid or is not a choice of X
PrismTrades == [][/\ UsedAbility /\ call'.card = "Prism" /\ call'.index = 1 /\ Usable
                  /\ Len(call'.variable_payment) = 1 /\ Contains(NonGold, PaidType) /\ PaidAmount >= 1
                  /\ game.players[last'.pid].resources[PaidType] >= PaidAmount
                  => /\ last'.ok
                     /\ game'.players[last'.pid].resources[PaidType] = game.players[last'.pid].resources[PaidType] - PaidAmount
                     /\ \A r \in Resources \ {PaidType} : game'.players[last'.pid].resources[r] = game.players[last'.pid].resources[r] + Traded[r]]_vars

(***************************************************************************)
(* The draft on its own: every pick a player can ask for, of a card of      *)
(* their own offer or of any other list of the draft                        *)
(***************************************************************************)
DraftPlayers == 3

InitDraft == /\ \E g \in NewGames({DraftPlayers}, {"keep"}) : game = deal_initial_cards(g, Names(MAGES), Shuffled(Names(ARTIFACTS), "stack"))
             /\ last = Started
             /\ hist = [NoHist EXCEPT !.batch = game.draft_state[1].cards_to_pick, !.seen = [i \in PlayerIds(game) |-> <<i>>]]
             /\ call = NoCall

\* the first card of a list, if there is one
Top(cards) == {cards[i] : i \in 1..Min(1, Len(cards))}

\* the cards a player asks for: the first of their offer (player 0: the first few), the first of every other offer, the card
\* on top of what they have set aside to pass, and the card they have drafted first
Asked(pid) == LET draft == game.draft_state[1]
              IN {draft.cards_to_pick[pid][i] : i \in 1..Min(IF pid = 0 THEN FreeWidth ELSE PickWidth, Len(draft.cards_to_pick[pid]))}
                 \cup UNION {Top(draft.cards_to_pick[i]) : i \in PlayerIds(game)} \cup Top(draft.cards_to_pass[pid]) \cup Top(draft.drafted_cards[pid])

\* draft_pick with the card asked for kept in call
DraftPickCalled(pid, card) == LET r == player_picks_card(game, pid, card)
                                  done == IF r.ok THEN Ret(advance_draft(r.g), TRUE) ELSE r
                              IN /\ game.phase \in {"drafting_round_1", "drafting_round_2"}
                                 /\ game' = done.g
                                 /\ last' = [op |-> "player_picks_card", pid |-> pid, arg |-> "", ok |-> done.ok, raised |-> done.raised]
                                 /\ hist' = HistAfter(hist, game, done.g, "player_picks_card", pid, done.ok)
                                 /\ call' = [op |-> "player_picks_card", card |-> card]

NextDraft == \E pid \in PlayerIds(game) : \E card \in Asked(pid) : DraftPickCalled(pid, card)

SpecDraft == InitDraft /\ [][NextDraft]_vars

\* the number of cards a player has drafted
DraftedBy(g, pid) == Len(g.draft_state[1].drafted_cards[pid])

\* the player has picked in the sub-round that is going on: they are a card ahead of somebody
Ahead(g, pid) == \E i \in PlayerIds(g) : DraftedBy(g, pid) > DraftedBy(g, i)

\* this step hands cards on: a new stage of the setup begins, or somebody is offered cards they were not offered before
HandedOn == \/ game'.phase # game.phase
            \/ \E i \in PlayerIds(game) : game'.draft_state[1].cards_to_pick[i] # <<>> /\ game'.draft_state[1].cards_to_pick[i] # game.draft_state[1].cards_to_pick[i]

\* C33: a pick succeeds only for a card of the picker's own offer and only for a player who has not picked in the sub-round,
\* so that nobody is ever more than one card ahead; a pick by a player who has picked fails and changes nothing; and cards
\* are handed on, or the next stage begun, only by the successful pick of the one player who had not picked yet
OnePickPerSubRound == [][last'.op = "player_picks_card" =>
                            /\ last'.ok => Contains(game.draft_state[1].cards_to_pick[last'.pid], call'.card) /\ ~Ahead(game, last'.pid)
                            /\ Ahead(game, last'.pid) => ~last'.ok /\ game' = game
                            /\ game'.phase \in {"drafting_round_1", "drafting_round_2"} => \A i, j \in PlayerIds(game) : DraftedBy(game', i) - DraftedBy(game', j) <= 1
                            /\ HandedOn => last'.ok /\ \A i \in PlayerIds(game) \ {last'.pid} : Ahead(game, i)
                            /\ last'.ok /\ ~HandedOn => \E i \in PlayerIds(game) \ {last'.pid} : ~Ahead(game, i)]_vars

\* a player who has picked, the others still to pick, has asked for the card on top of what they have set aside, and was refused
OnePickPerSubRoundWitness == /\ last.op = "player_picks_card" /\ ~last.ok /\ game.phase = "drafting_round_1"
                             /\ Ahead(game, last.pid) /\ Contains(game.draft_state[1].cards_to_pass[last.pid], call.card)
                             /\ \E i \in PlayerIds(game) : game.draft_state[1].cards_to_pick[i] # <<>>

\* the last player of a sub-round has picked and everybody holds the cards of a neighbour
HandedOnWitness == /\ last.op = "player_picks_card" /\ last.ok /\ game.phase = "drafting_round_1"
                   /\ \A i \in PlayerIds(game) : DraftedBy(game, i) = 1 /\ Len(game.draft_state[1].cards_to_pick[i]) = DraftBatch - 1

\* a player has asked for the card on top of another player's offer and was refused
OthersCardWitness == /\ last.op = "player_picks_card" /\ ~last.ok /\ game.phase = "drafting_round_1"
                     /\ ~Ahead(game, last.pid) /\ \E i \in PlayerIds(game) \ {last.pid} : Contains(game.draft_state[1].cards_to_pick[i], call.card)

(***************************************************************************)
(* Attacks answered by 'avoid': the avoid cost is a resource (Fire         *)
(* Dragon), a discard (Wind Dragon), an artifact (Sea Serpent) or absent    *)
(* (Elvish Bow)                                                             *)
(***************************************************************************)
AvoidCards == {"Fire Dragon", "Wind Dragon", "Sea Serpent", "Elvish Bow"}

\* what the attacked player holds: a card in hand or none, an artifact or none, and a pool that can or cannot pay 1 blue
AvoidHands == {<<>>, <<"Hawk">>}

AvoidArtifacts == {<<>>, <<ControlledCard("Guard Dog")>>}

AvoidPools == {[NoRes EXCEPT !["green"] = green, !["red"] = red, !["blue"] = blue] : green \in 0..MaxGreen, red \in {0, MaxRed}, blue \in 0..MaxOther}

\* the answers of player 1: 'pay', or 'avoid' with or without the card to discard and the artifact to destroy, in hand or not
AvoidResponses == {<< <<1, [response |-> response, discard |-> discard, destroy_artifact |-> destroy_artifact]>> >> : response \in {"pay", "avoid"}, discard \in {"", "Hawk", "Nightingale"}, destroy_artifact \in {"", "Guard Dog"}}

InitAvoid == /\ \E g \in StartGames : \E card \in AvoidCards : \E hand \in AvoidHands : \E artifacts \in AvoidArtifacts : \E pool \in AvoidPools :
                    game = Staged(g, (0 :> <<ControlledCard(card)>>) @@ (1 :> artifacts), (0 :> <<>>) @@ (1 :> hand), (0 :> [NoRes EXCEPT !["red"] = 1]) @@ (1 :> pool))
             /\ last = Started
             /\ hist = NoHist
             /\ call = NoCall

NextAvoid == \E responses \in AvoidResponses : \E card_name \in AvoidCards :
                 /\ Controls(game.players[0], card_name)
                 /\ UseAbilityCalled(0, card_name, AttackIndex(card_name), NoCostChoices, [NoEffectChoices EXCEPT !.attack_responses = responses])

SpecAvoid == InitAvoid /\ [][NextAvoid]_vars

\* the player after the avoid cost is paid by the card or the artifact named, or out of the pool
Avoided(was, avoid_cost, answer) == IF DictHas(avoid_cost, "discard") THEN [was EXCEPT !.hand = ListRemove(@, answer.discard), !.discard = Append(@, answer.discard)]
                                    ELSE IF DictHas(avoid_cost, "destroy_artifact") THEN [was EXCEPT !.artifacts = SelectSeq(@, LAMBDA cc : cc.card # answer.destroy_artifact), !.discard = Append(@, answer.destroy_artifact)]
                                    ELSE [was EXCEPT !.resources = [r \in Resources |-> @[r] - DictGet(avoid_cost, r, 0)]]

\* C34: after an attack that player 1 answers by 'avoid', player 1 has paid the avoid cost of the attack and nothing else when
\* they can afford it (the resources are gone from the pool, or a card has gone from the hand to the discard pile, or an
\* artifact from play to the discard pile), and has paid the standard payment for the green cost otherwise: never neither
AvoidPaysOneOfTwo == [][Attacked /\ call'.responses[1][2].response = "avoid" =>
                          LET effect == AttackEffect(call')
                              was == game.players[1]
                              now == game'.players[1]
                          IN IF Len(effect.avoid_cost) > 0 /\ can_pay_avoid_cost(was, effect.avoid_cost)
                             THEN /\ DictHas(effect.avoid_cost, "discard") => now.resources = was.resources /\ now.artifacts = was.artifacts /\ Len(now.hand) = Len(was.hand) - 1 /\ Len(now.discard) = Len(was.discard) + 1
                                  /\ DictHas(effect.avoid_cost, "destroy_artifact") => now.resources = was.resources /\ now.hand = was.hand /\ Len(now.artifacts) = Len(was.artifacts) - 1 /\ Len(now.discard) = Len(was.discard) + 1
                                  /\ ~DictHas(effect.avoid_cost, "discard") /\ ~DictHas(effect.avoid_cost, "destroy_artifact") => now = Avoided(was, effect.avoid_cost, call'.responses[1][2])
                             ELSE now = [was EXCEPT !.resources = attack_payment(@, effect.green_cost)]]_vars

(***************************************************************************)
(* Playing a card whose cost has a part for any resource, with the split    *)
(* of that part chosen by the caller                                        *)
(***************************************************************************)
\* Tree of Life costs 1 green and 2 of any kind, Crypt 2 black and 3 of any kind
SplitCards == {"Tree of Life", "Crypt"}

SplitPools == {[NoRes EXCEPT !["red"] = red, !["blue"] = blue, !["green"] = 1, !["black"] = black, !["gold"] = gold] : red \in 0..MaxStartRed + 1, blue \in 0..MaxOther + 1, black \in {0, 2}, gold \in {0, MaxOther}}

\* the any_payment sent along: none, splits of 2 and of 3, splits of another total, and gold, which pay_cost skips
Splits == {<<>>, << <<"red", 2>> >>, << <<"red", 1>>, <<"blue", 1>> >>, << <<"blue", 2>>, <<"red", 1>> >>, << <<"red", 1>> >>, << <<"gold", 2>> >>, << <<"red", 2>>, <<"blue", 2>> >>}

InitSplit == /\ \E g \in StartGames : \E card \in SplitCards : \E pool \in SplitPools :
                    game = Staged(g, (0 :> <<>>) @@ (1 :> <<>>), (0 :> <<card>>) @@ (1 :> <<>>), (0 :> pool) @@ (1 :> NoRes))
             /\ last = Started
             /\ hist = NoHist
             /\ call = NoCall

\* action_play_card with the card and the split kept in call
PlayCardCalled(pid, card_name, any_payment) == /\ game' = player_play_card(game, pid, card_name, any_payment).g
                                               /\ last' = [op |-> "player_play_card", pid |-> pid, arg |-> "", ok |-> player_play_card(game, pid, card_name, any_payment).ok, raised |-> player_play_card(game, pid, card_name, any_payment).raised]
                                               /\ hist' = HistAfter(hist, game, game', "player_play_card", pid, last'.ok)
                                               /\ call' = [op |-> "player_play_card", card |-> card_name, any_payment |-> any_payment]

NextSplit == \E pid \in PlayerIds(game) : \E card_name \in SplitCards : \E any_payment \in Splits : PlayCardCalled(pid, card_name, any_payment)

SpecSplit == InitSplit /\ [][NextSplit]_vars

\* C35: when player_play_card has succeeded for a card with a cost (no cost reduction in play), the pool has gone down by
\* exactly that cost: by the named amount in each named type, gold included, and by the amount for any resource in red, blue,
\* green and black together, no count falling below zero, whatever split was sent along
PlayPaysExactCost == [][last'.op = "player_play_card" /\ call'.op = "player_play_card" /\ last'.ok =>
                           LET cost == CardOf(call'.card).effects.cost
                               was == game.players[last'.pid].resources
                               now == game'.players[last'.pid].resources
                           IN /\ \A r \in Resources : now[r] >= 0 /\ now[r] <= was[r] - DictGet(cost, r, 0)
                              /\ now["gold"] = was["gold"] - DictGet(cost, "gold", 0)
                              /\ TotalOf(was) - TotalOf(now) = DictSum(cost)]_vars

\* C36: a player_pass that names a magic item which is not in the shared pool fails and leaves the game as it was: the token
\* with its holder and its face, the magic item of the player, the pool, the passed flags and the current player
RefusedPassChangesNothing == [][last'.op = "player_pass" /\ last'.arg # "" /\ ~Contains(game.available_magic_items, last'.arg) => ~last'.ok /\ game' = game]_vars

(***************************************************************************)
(* SpecWait: the round of three of SpecTurns, every player attempting to   *)
(* finalize again and again while the income phase lasts                   *)
(***************************************************************************)
\* what the attempt of one player to finalize does to the game, as NextTurns takes it
FinalizeStep(pid) == InPlay /\ game.phase = "income" /\ game' = player_finalizes_income(game, pid).g

\* an attempt that would change the game is not put off for ever
SpecWait == InitTurns /\ [][NextTurns]_vars /\ \A pid \in 0..2 : WF_game(FinalizeStep(pid))

\* the players who have not finalized, in turn order
Unfinalized(g) == SelectSeq(get_turn_order(g), LAMBDA pid : ~g.income_state[1].finalized[pid])

\* the earliest player in turn order who has not finalized is able to finalize
EarliestCanFinalize == game.phase = "income" => /\ game.income_state # None
                                                /\ first_player(game) # NoPlayer
                                                /\ Len(Unfinalized(game)) > 0
                                                /\ can_player_finalize(game, Unfinalized(game)[1]).ok
                                                /\ player_finalizes_income(game, Unfinalized(game)[1]).ok

\* C37: the income phase cannot deadlock: in every income state the earliest player in turn order who has not finalized is able
\* to finalize, whatever waits were elected, and with every player attempting to finalize the phase becomes the playing phase
IncomeNeverDeadlocks == [](EarliestCanFinalize) /\ (game.phase = "income" /\ InPlay ~> game.phase = "playing")

\* a player who elected to wait has just been refused, an earlier player not having finalized, and that earlier player is able to
IncomeNeverDeadlocksWitness == /\ last.op = "player_finalizes_income" /\ ~last.ok /\ game.phase = "income"
                               /\ game.income_state[1].waiting_for_earlier[last.pid] /\ ~game.income_state[1].finalized[last.pid]
                               /\ Unfinalized(game)[1] # last.pid
                               /\ can_player_finalize(game, Unfinalized(game)[1]).ok

(***************************************************************************)
(* The first-player token over a round                                     *)
(***************************************************************************)
\* the players who have passed in the action phase under way
PassedIn(g) == IF g.phase = "playing" /\ g.action_state # None THEN {i \in PlayerIds(g) : g.action_state[1].passed[i]} ELSE {}

\* the step is the first successful pass of an action phase
FirstPass == game.phase = "playing" /\ PassedIn(game) = {} /\ last'.op = "player_pass" /\ last'.ok

\* the first passer holds the token, face down while the action phase lasts
FirstPasserTakesToken == FirstPass => /\ first_player(game') = last'.pid
                                      /\ \A i \in PlayerIds(game') : game'.players[i].has_first_player_token <=> i = last'.pid
                                      /\ game'.phase = "playing" => ~game'.players[last'.pid].first_player_token_face_up

\* before the first pass of an action phase nothing but that pass moves the token
TokenWaitsForPass == game.phase = "playing" /\ PassedIn(game) = {} /\ ~FirstPass => first_player(game') = first_player(game)

\* once a player has passed the token stays with its holder, through the later passes and the income phase that follows
TokenStays == PassedIn(game) # {} \/ game.phase = "income" => first_player(game') = first_player(game)

\* the action phase begins with the holder of the token as the current player
HolderBegins == game.phase = "income" /\ game'.phase = "playing" => game'.action_state[1].current_player = first_player(game')

\* C38: within one action phase the token changes holder at most once: the first player to pass in a round takes it face down,
\* nothing else moves it until the next action phase has begun, and that phase begins with its holder as the current player
TokenFollowsFirstPass == [][FirstPasserTakesToken /\ TokenWaitsForPass /\ TokenStays /\ HolderBegins]_vars

(***************************************************************************)
(* SpecAmounts: the operations that take a map of amounts from the caller, *)
(* sent maps with amounts of zero and below                                *)
(***************************************************************************)
\* the maps a caller sends: each totals 2, the last three with an amount of zero or below
AmountMaps == {<< <<"red", 2>> >>, << <<"red", 1>>, <<"blue", 1>> >>, << <<"red", 2>>, <<"blue", 0>> >>, << <<"red", 3>>, <<"blue", -1>> >>, << <<"blue", -1>>, <<"red", 3>> >>}

AmountPools == {[NoRes EXCEPT !["red"] = red, !["blue"] = blue, !["green"] = 1] : red \in {0, MaxStartRed + 1}, blue \in 0..MaxOther}

\* player 0 controls Celestial Horse, whose income is 2 of red, blue and green by choice, and holds Tree of Life, which
\* costs 1 green and 2 of any kind, with a card to discard; player 1 holds a card to discard
InitAmounts == /\ \E g \in StartGames : \E pool \in AmountPools :
                      game = Staged(g, (0 :> <<ControlledCard("Celestial Horse")>>) @@ (1 :> <<>>), (0 :> <<"Tree of Life", "Crypt">>) @@ (1 :> <<"Vault">>), (0 :> pool) @@ (1 :> NoRes))
               /\ last = Started
               /\ hist = NoHist
               /\ call = NoCall

NextAmounts == \/ \E pid \in Movers : \E card \in {"Crypt", "Vault"} : \E gain_resources \in AmountMaps : InPlay /\ DiscardCard(pid, card, FALSE, gain_resources)
               \/ \E pid \in Movers : \E any_payment \in AmountMaps : InPlay /\ PlayCardCalled(pid, "Tree of Life", any_payment)
               \/ \E pid \in Movers : InPlay /\ Pass(pid, "")
               \/ \E resources \in AmountMaps : InPlay /\ game.phase = "income" /\ SetIncomeChoice(0, "Celestial Horse", resources)
               \/ \E pid \in PlayerIds(game) : InPlay /\ game.phase = "income" /\ FinalizeIncome(pid)

SpecAmounts == InitAmounts /\ [][NextAmounts]_vars

\* every count in every pool and on every controlled card is at least 0
NonNegative(g) == \A i \in PlayerIds(g) : /\ \A r \in Resources : g.players[i].resources[r] >= 0
                                          /\ \A k \in DOMAIN CardPlaces(g.players[i]) : \A r \in Resources : CardAt(g.players[i], CardPlaces(g.players[i])[k]).resources[r] >= 0

\* playing a card, which takes its cost from the player, has raised none of the player's counts
PlayRaisesNothing == last'.op = "player_play_card" /\ last'.pid \in PlayerIds(game) => \A r \in Resources : game'.players[last'.pid].resources[r] <= game.players[last'.pid].resources[r]

\* C39: whatever maps of amounts the callers send, amounts of zero and below included, every resource count in every pool and
\* on every controlled card stays at least 0, and an operation that takes resources from a player raises none of the player's counts
AmountsStayNatural == [][NonNegative(game') /\ PlayRaisesNothing]_vars

\* the calls that set what a player's income will be
IncomeSettingOps == {"set_collection_choice", "set_income_choice", "player_waits_for_earlier", "set_auto_skip_places_of_power"}

\* C40: once a player has finalized, every later income setting call by that player in the same income phase (collection
\* choice, income choice, wait election, auto-skip preference) fails and changes nothing
FinalizedIsFixed == [][game.phase = "income" /\ last'.op \in IncomeSettingOps /\ last'.pid \in PlayerIds(game) /\ game.income_state[1].finalized[last'.pid] => ~last'.ok /\ game' = game]_vars

====
